---- MODULE Spec2Model ----
(***************************************************************************)
(* A model of the portal transfer protocol engine (crate core):            *)
(*   - the length-prefixed frame codec          (core/src/codec.rs)        *)
(*   - the receiver engine "Slave"              (core/src/slave.rs)        *)
(*   - the sender engine "Master"               (core/src/master.rs)       *)
(* Bytes are integers 0..255, byte strings and Rust Strings (UTF-8) are    *)
(* sequences of bytes.                                                     *)
(***************************************************************************)
EXTENDS Integers, Sequences, FiniteSets, TLC

(***************************************************************************)
(* Program constants.                                                      *)
(***************************************************************************)
MAX_CONTENT_SIZE == 1498

MAX_FILE_FARGMENT_SIZE == 1477

(***************************************************************************)
(* Generic helpers.                                                        *)
(***************************************************************************)
Min(a, b) == IF a < b THEN a ELSE b

Take(s, n) == SubSeq(s, 1, Min(n, Len(s)))

Drop(s, n) == SubSeq(s, Min(n, Len(s)) + 1, Len(s))

IsPrefix(p, s) == Len(p) <= Len(s) /\ SubSeq(s, 1, Len(p)) = p

\* A deterministic byte pattern of length n (test payloads, file contents).
Pattern(seed, n) == [i \in 1..n |-> (seed + 7 * i) % 256]

(***************************************************************************)
(* utils.rs: big-endian u16 <-> two bytes.                                 *)
(***************************************************************************)
u8_array_to_u16(array) == (array[1] * 256 + array[2]) % 65536

\* (mutant) the low byte goes first.
u16_to_u8_array_le(value) == << value % 256, (value \div 256) % 256 >>

u16_to_u8_array(value) == << (value \div 256) % 256, value % 256 >>

(***************************************************************************)
(* bincode (fixed-width integers, little endian): the serialization that   *)
(* #[derive(Serialize, Deserialize)] gives the message enums.              *)
(*   enum variant : u32 LE variant index (declaration order)               *)
(*   u8           : 1 byte          u32 : 4 bytes LE                       *)
(*   Vec<u8>, String : u64 LE length, then the bytes                       *)
(***************************************************************************)
LE32(n) == << n % 256, (n \div 256) % 256, (n \div 65536) % 256, (n \div 16777216) % 256 >>

LE64(n) == LE32(n) \o << 0, 0, 0, 0 >>

\* The value of 4 little-endian bytes; -1 stands for a value of 2^31 or more,
\* which no length or index of the model reaches.
FromLE32(bs) ==
    IF bs[4] >= 128 THEN -1
    ELSE bs[1] + 256 * bs[2] + 65536 * bs[3] + 16777216 * bs[4]

\* The value of 8 little-endian bytes; -1 stands for a value of 2^31 or more.
FromLE64(bs) ==
    IF \E i \in 5..8 : bs[i] # 0 THEN -1 ELSE FromLE32(SubSeq(bs, 1, 4))

SerBytes(bs) == LE64(Len(bs)) \o bs

\* str::from_utf8 as String's Deserialize applies it: every byte is a valid
\* lead byte followed by its continuation bytes, or a continuation byte of
\* such a lead.
IsCont(b) == b >= 128 /\ b <= 191

Utf8Need(b) ==
    IF b < 128 THEN 0
    ELSE IF b >= 194 /\ b <= 223 THEN 1
    ELSE IF b >= 224 /\ b <= 239 THEN 2
    ELSE IF b >= 240 /\ b <= 244 THEN 3
    ELSE -1

Utf8SecondOk(lead, b) ==
    CASE lead = 224 -> b >= 160 /\ b <= 191
      [] lead = 237 -> b >= 128 /\ b <= 159
      [] lead = 240 -> b >= 144 /\ b <= 191
      [] lead = 244 -> b >= 128 /\ b <= 143
      [] OTHER -> IsCont(b)

Utf8Valid(bs) ==
    \A i \in 1..Len(bs) :
        IF IsCont(bs[i])
        THEN \E k \in 1..3 :
                /\ i - k >= 1
                /\ ~IsCont(bs[i - k])
                /\ Utf8Need(bs[i - k]) >= k
                /\ \A j \in (i - k + 1)..(i - 1) : IsCont(bs[j])
        ELSE /\ Utf8Need(bs[i]) >= 0
             /\ i + Utf8Need(bs[i]) <= Len(bs)
             /\ \A j \in 1..Utf8Need(bs[i]) : IsCont(bs[i + j])
             /\ Utf8Need(bs[i]) >= 1 => Utf8SecondOk(bs[i], bs[i + 1])

(***************************************************************************)
(* codec.rs: the message enums.                                            *)
(***************************************************************************)
Ping == [kind |-> "Ping"]

FileFragment(file_id, index, data) ==
    [kind |-> "FileFragment", file_id |-> file_id, index |-> index, data |-> data]

FileMetadata(file_id, file_name, sha256) ==
    [kind |-> "FileMetadata", file_id |-> file_id, file_name |-> file_name, sha256 |-> sha256]

EndOfFile(file_id) == [kind |-> "EndOfFile", file_id |-> file_id]

DropFile(file_id) == [kind |-> "DropFile", file_id |-> file_id]

Pong == [kind |-> "Pong"]

Ok == [kind |-> "Ok"]

FileIdNotFound(file_id) == [kind |-> "FileIdNotFound", file_id |-> file_id]

CannotSaveFile(file_id) == [kind |-> "CannotSaveFile", file_id |-> file_id]

ChecksumNotMatched(file_id) == [kind |-> "ChecksumNotMatched", file_id |-> file_id]

\* bincode::serialize(&MasterRequest)
SerializeRequest(m) ==
    CASE m.kind = "Ping" -> LE32(0)
      [] m.kind = "FileFragment" ->
            LE32(1) \o << m.file_id >> \o LE32(m.index) \o SerBytes(m.data)
      [] m.kind = "FileMetadata" ->
            LE32(2) \o << m.file_id >> \o SerBytes(m.file_name) \o SerBytes(m.sha256)
      [] m.kind = "EndOfFile" -> LE32(3) \o << m.file_id >>
      [] m.kind = "DropFile" -> LE32(4) \o << m.file_id >>

\* bincode::serialize(&SlaveResponse)
SerializeResponse(m) ==
    CASE m.kind = "Pong" -> LE32(0)
      [] m.kind = "Ok" -> LE32(1)
      [] m.kind = "FileIdNotFound" -> LE32(2) \o << m.file_id >>
      [] m.kind = "CannotSaveFile" -> LE32(3) \o << m.file_id >>
      [] m.kind = "ChecksumNotMatched" -> LE32(4) \o << m.file_id >>

DeErr == [ok |-> FALSE]

DeOk(m) == [ok |-> TRUE, msg |-> m]

\* Reads a length-prefixed byte string at position p (1-based) of bs:
\* [ok, val, next].
ReadBytes(bs, p) ==
    IF p + 7 > Len(bs) THEN [ok |-> FALSE]
    ELSE LET n == FromLE64(SubSeq(bs, p, p + 7)) IN
         IF n < 0 \/ p + 7 + n > Len(bs) THEN [ok |-> FALSE]
         ELSE [ok |-> TRUE, val |-> SubSeq(bs, p + 8, p + 7 + n), next |-> p + 8 + n]

\* bincode::deserialize::<MasterRequest>(bs); trailing bytes are allowed.
DeserializeRequest(bs) ==
    IF Len(bs) < 4 THEN DeErr
    ELSE LET tag == FromLE32(SubSeq(bs, 1, 4)) IN
      CASE tag = 0 -> DeOk(Ping)
        [] tag = 1 ->
            IF Len(bs) < 9 THEN DeErr
            ELSE LET d == ReadBytes(bs, 10) IN
                 IF ~d.ok \/ FromLE32(SubSeq(bs, 6, 9)) < 0 THEN DeErr
                 ELSE DeOk(FileFragment(bs[5], FromLE32(SubSeq(bs, 6, 9)), d.val))
        [] tag = 2 ->
            IF Len(bs) < 5 THEN DeErr
            ELSE LET n == ReadBytes(bs, 6) IN
                 IF ~n.ok \/ ~Utf8Valid(n.val) THEN DeErr
                 ELSE LET s == ReadBytes(bs, n.next) IN
                      IF ~s.ok \/ ~Utf8Valid(s.val) THEN DeErr
                      ELSE DeOk(FileMetadata(bs[5], n.val, s.val))
        [] tag = 3 -> IF Len(bs) < 5 THEN DeErr ELSE DeOk(EndOfFile(bs[5]))
        [] tag = 4 -> IF Len(bs) < 5 THEN DeErr ELSE DeOk(DropFile(bs[5]))
        [] OTHER -> DeErr

\* bincode::deserialize::<SlaveResponse>(bs)
DeserializeResponse(bs) ==
    IF Len(bs) < 4 THEN DeErr
    ELSE LET tag == FromLE32(SubSeq(bs, 1, 4)) IN
      CASE tag = 0 -> DeOk(Pong)
        [] tag = 1 -> DeOk(Ok)
        [] tag = 2 -> IF Len(bs) < 5 THEN DeErr ELSE DeOk(FileIdNotFound(bs[5]))
        [] tag = 3 -> IF Len(bs) < 5 THEN DeErr ELSE DeOk(CannotSaveFile(bs[5]))
        [] tag = 4 -> IF Len(bs) < 5 THEN DeErr ELSE DeOk(ChecksumNotMatched(bs[5]))
        [] OTHER -> DeErr

Serialize(codec, m) ==
    IF codec = "request" THEN SerializeRequest(m) ELSE SerializeResponse(m)

Deserialize(codec, bs) ==
    IF codec = "request" THEN DeserializeRequest(bs) ELSE DeserializeResponse(bs)

(***************************************************************************)
(* codec.rs: Encoder::encode and Decoder::decode.  The two codecs differ   *)
(* only in the message type.                                               *)
(***************************************************************************)
\* (mutant) the prefix counts the payload only.
EncodeLengthPayloadOnly(data) == u16_to_u8_array(Len(data) % 65536)

\* The length prefix encode writes: data_len = 2 + data.len(); put_u16(data_len as u16)
EncodeLength(data) == u16_to_u8_array((2 + Len(data)) % 65536)

\* (mutant) the ceiling is off by one.
TooLargeOffByOne(data) == Len(data) >= MAX_CONTENT_SIZE

\* Whether encode rejects the serialized message.
TooLarge(data) == Len(data) > MAX_CONTENT_SIZE

\* encode(item, dst): [res |-> "Ok" | "DataTooLarge", dst |-> the buffer after]
Encode(codec, item, dst) ==
    LET data == Serialize(codec, item) IN
    IF TooLarge(data)
    THEN [res |-> "DataTooLarge", dst |-> dst]
    ELSE [res |-> "Ok", dst |-> dst \o EncodeLength(data) \o data]

\* (mutant) the declared length is taken to count the payload only.
NeedMorePayloadOnly(src, total_length) == Len(src) < total_length - 2

\* Whether decode has to wait for more bytes: if buf_len < total_length
NeedMore(src, total_length) == Len(src) < total_length

\* (mutant) the prefix is taken out on top of the declared length.
SplitLengthPlusPrefix(total_length) == total_length + 2

\* How many bytes a complete frame takes from the buffer: src.split_to(total_length)
SplitLength(total_length) == total_length

\* decode(src): [res |-> "None" | "Some" | "Err" | "Panic", item, src |-> the buffer after]
\* "Panic": &serialized[2..] on a frame of fewer than 2 bytes.
Decode(codec, src) ==
    IF Len(src) < 2 THEN [res |-> "None", src |-> src]
    ELSE LET total_length == u8_array_to_u16(<< src[1], src[2] >>) IN
         IF NeedMore(src, total_length) THEN [res |-> "None", src |-> src]
         ELSE LET n == SplitLength(total_length)
                  serialized == Take(src, n)
                  rest == Drop(src, n)
              IN IF Len(serialized) < 2 THEN [res |-> "Panic", src |-> rest]
                 ELSE LET d == Deserialize(codec, Drop(serialized, 2)) IN
                      IF d.ok THEN [res |-> "Some", item |-> d.msg, src |-> rest]
                      ELSE [res |-> "Err", src |-> rest]

\* The frame encode produces for a message that fits.
Frame(codec, m) == Encode(codec, m, << >>).dst

(***************************************************************************)
(* sha256::digest / sha256::try_digest.  SHA-256 is stood in for by a      *)
(* 16-bit position-weighted checksum, written as 4 lower-case hex          *)
(* characters (SHA-256 gives 64).                                          *)
(***************************************************************************)
RECURSIVE WeightedSum(_, _, _)
WeightedSum(bs, lo, hi) ==
    IF lo > hi THEN 0
    ELSE IF lo = hi THEN ((lo % 251) + 1) * (bs[lo] + 1)
    ELSE LET mid == (lo + hi) \div 2 IN
         WeightedSum(bs, lo, mid) + WeightedSum(bs, mid + 1, hi)

HexChar(v) == IF v < 10 THEN 48 + v ELSE 87 + v

HexByte(b) == << HexChar(b \div 16), HexChar(b % 16) >>

Digest(bs) ==
    LET w == WeightedSum(bs, 1, Len(bs)) IN
    HexByte(w % 256) \o HexByte(((w \div 256) + Len(bs)) % 256)

\* The value of one character as a base-16 digit, -1 if it is none.
HexVal(c) ==
    IF c >= 48 /\ c <= 57 THEN c - 48
    ELSE IF c >= 97 /\ c <= 102 THEN c - 87
    ELSE IF c >= 65 /\ c <= 70 THEN c - 55
    ELSE -1

\* (mutant) the file_id is taken from the third and fourth characters.
FileIdOfSecond(sha256) == 16 * HexVal(sha256[3]) + HexVal(sha256[4])

\* master.rs: u8::from_str_radix(&sha256[0..=1], 16).unwrap_or(255)
FileIdOf(sha256) ==
    LET a == HexVal(sha256[1])
        b == HexVal(sha256[2])
    IN IF a >= 0 /\ b >= 0 THEN 16 * a + b
       ELSE IF sha256[1] = 43 /\ b >= 0 THEN b
       ELSE 255

(***************************************************************************)
(* slave.rs: handle_request, as functions of the receiver's two maps.      *)
(* A map is a function whose DOMAIN is its key set; a fragment is the      *)
(* pair << index, data >>.                                                 *)
(***************************************************************************)
EmptyMap == << >>

MapInsert(map, k, v) == [x \in (DOMAIN map) \cup { k } |-> IF x = k THEN v ELSE map[x]]

\* (mutant) removing one key empties the map.
MapRemoveAll(map, k) == EmptyMap

\* HashMap::remove
MapRemove(map, k) == [x \in (DOMAIN map) \ { k } |-> map[x]]

\* Where x goes in a list sorted by index: after every element whose index
\* is not greater (a stable sort keeps equal indices in arrival order).
RECURSIVE InsertByIndex(_, _)
InsertByIndex(sorted, x) ==
    IF sorted = << >> THEN << x >>
    ELSE IF x[1] < sorted[Len(sorted)][1]
         THEN Append(InsertByIndex(SubSeq(sorted, 1, Len(sorted) - 1), x), sorted[Len(sorted)])
         ELSE Append(sorted, x)

RECURSIVE StableSortByIndex(_)
StableSortByIndex(frags) ==
    IF frags = << >> THEN << >>
    ELSE InsertByIndex(StableSortByIndex(SubSeq(frags, 1, Len(frags) - 1)), frags[Len(frags)])

\* (mutant) the fragments are concatenated as they arrived.
SortFragmentsNot(file_content) == file_content

\* file_content.sort_by(|a, b| a.0.cmp(&b.0))
SortFragments(file_content) == StableSortByIndex(file_content)

\* file_content.iter().flat_map(|(_, v)| v.iter()).copied().collect()
RECURSIVE ConcatData(_)
ConcatData(frags) ==
    IF frags = << >> THEN << >>
    ELSE frags[1][2] \o ConcatData(Tail(frags))

\* (mutant) the digest is not compared.
ChecksumMatchesAlways(sha256, recv_sha256) == TRUE

\* if sha256 != recv_sha256 { return ChecksumNotMatched }
ChecksumMatches(sha256, recv_sha256) == sha256 = recv_sha256

\* "static/recv_" and the default of RECEVIED_FILE_FOLDER, "received_files", with "/"
DebugPrefix == << 115, 116, 97, 116, 105, 99, 47, 114, 101, 99, 118, 95 >>

ReleasePrefix == << 114, 101, 99, 101, 105, 118, 101, 100, 95, 102, 105, 108, 101, 115, 47 >>

\* (mutant) one storage path for both build profiles.
StoragePathAnyBuild(build, file_name) == ReleasePrefix \o file_name

\* The path EndOfFile writes to, by build profile (cfg(debug_assertions)).
StoragePath(build, file_name) ==
    IF build = "debug" THEN DebugPrefix \o file_name ELSE ReleasePrefix \o file_name

\* (mutant) a fragment for an unknown file_id opens the transfer.
HandleFileFragmentOpening(file_pool, file_id, index, data) ==
    [ file_pool |-> MapInsert(file_pool, file_id,
                        IF file_id \in DOMAIN file_pool
                        THEN Append(file_pool[file_id], << index, data >>)
                        ELSE << << index, data >> >>),
      resp |-> Ok ]

\* (mutant) a fragment takes the place of an earlier one with its index.
HandleFileFragmentMerging(file_pool, file_id, index, data) ==
    IF file_id \in DOMAIN file_pool
    THEN [ file_pool |-> [file_pool EXCEPT ![file_id] =
                            Append(SelectSeq(@, LAMBDA f : f[1] # index), << index, data >>)],
           resp |-> Ok ]
    ELSE [ file_pool |-> file_pool, resp |-> FileIdNotFound(file_id) ]

\* MasterRequest::FileFragment
HandleFileFragment(file_pool, file_id, index, data) ==
    IF file_id \in DOMAIN file_pool
    THEN [ file_pool |-> [file_pool EXCEPT ![file_id] = Append(@, << index, data >>)],
           resp |-> Ok ]
    ELSE [ file_pool |-> file_pool, resp |-> FileIdNotFound(file_id) ]

\* MasterRequest::EndOfFile, up to the digest check:
\* [found, file_name, sha256, arrived, file_content, matches]
EndOfFileLookup(file_pool, file_metadata, file_id) ==
    IF file_id \notin DOMAIN file_metadata \/ file_id \notin DOMAIN file_pool
    THEN [ found |-> FALSE ]
    ELSE LET arrived == file_pool[file_id]
             file_content == ConcatData(SortFragments(arrived))
         IN [ found |-> TRUE,
              file_name |-> file_metadata[file_id].file_name,
              sha256 |-> file_metadata[file_id].sha256,
              arrived |-> arrived,
              file_content |-> file_content,
              matches |-> ChecksumMatches(file_metadata[file_id].sha256, Digest(file_content)) ]

(***************************************************************************)
(* Bounds of the model.                                                    *)
(***************************************************************************)
\* Frames one codec run encodes.
MaxFrames == 2

\* Transport reads (buffer appends) one codec run performs.
MaxReads == 9

\* Bytes one codec run puts on its stream.
MaxStream == 1510

\* Socket buffering between a Master and its Slave: request bytes and
\* response bytes the connection holds in flight.
SendCap == 1500

RecvCap == 64

\* TaskStatus values a controller sends during one transfer.
MaxCtl == 2

\* TaskStatus values the controller of an aborted transfer sends.
MaxAbortCtl == 3

\* Writes the peer of recv_responses makes on the response stream.
MaxRespWrites == 3

\* Requests an arbitrary peer sends to one receiver.
MaxRequests == 4

\* Socket buffer of the request direction and of the response direction, in bytes.
ReqCap == 28

RespCap == 8

(***************************************************************************)
(* State.                                                                  *)
(***************************************************************************)
VARIABLES
    \* --- a codec pair over one byte stream (FramedWrite -> FramedRead) ---
    c_codec,    \* "request" | "response": which codec pair runs
    c_dst,      \* FramedWrite's buffer: encoded, not yet flushed
    c_wire,     \* the stream: flushed, not yet read
    c_sent,     \* the messages encoded successfully, in order
    c_enc,      \* the last encode call: [called, item, before, res, after]
    c_src,      \* FramedRead's decode buffer
    c_rd,       \* FramedRead's position: "decode" | "read" | "failed"
    c_got,      \* the messages decode returned, in order
    c_dec,      \* the last decode call: [called, before, res, item, after]
    c_reads,    \* transport reads so far
    c_bytewise, \* TRUE while every transport read so far appended exactly one byte
    \* --- one connection ---
    driver,     \* who drives the run: "codec" | "peer" | "send_a_file" | "do_send_a_file"
    build,      \* "debug" | "release" (cfg(debug_assertions))
    conn,       \* "open" | "closed" (the sender shut its write half)
    req_wire,   \* request bytes in flight
    resp_wire,  \* response bytes in flight
    resp_stream,\* every response byte the receiver has flushed
    p_sent,     \* the requests the sending side has issued, in order
    \* --- Slave ---
    s_pc,       \* "recv" | "respond" | "ok" | "err" | "panic"
    s_rbuf,     \* receiver: FramedRead's buffer
    s_wbuf,     \* sender: FramedWrite's buffer (response bytes not yet flushed)
    file_pool,  \* { file_id: [ (index, data), ... ] }
    file_metadata, \* { file_id: (file_name, sha256) }
    disk,       \* the files of the storage directory, path -> content
    s_reqs,     \* the requests decoded, in order
    s_resps,    \* the responses handle_request returned, in order
    s_flushed,  \* how many responses have been written and flushed
    s_last,     \* what handling the last request did
    \* --- Master: one call of send_a_file / do_send_a_file ---
    m_pc,       \* "idle" | "loop" | "eof" | "drop" | "returned"
    m_path,     \* the path argument
    m_file_id,  \* file_id, from the first two characters of the digest
    m_wbuf,     \* sender: FramedWrite's buffer (request bytes not yet flushed)
    read_bytes,
    fragment_index,
    status,     \* "Running" | "Paused" | "Aborted"
    stat_chan,  \* the control channel: TaskStatus values sent, not yet received
    stat_tx,    \* stat_sender: "none" | "callee" (a local of send_a_file) | "caller" | "dropped"
    ctl_sent,   \* how many TaskStatus values the controller has sent
    polled_log, \* the TaskStatus values try_recv has returned, in order
    ctl_lost,   \* whether the loop had chunks to send when stat_sender was dropped
    abort_at,   \* what was sent and queued when Aborted was first sent with chunks left
    m_file,     \* file: the bytes the opened file holds now
    m_ret,      \* what do_send_a_file returned, "pending" before
    res_chan,   \* the result channel
    \* Master::recv_responses
    r_pc,       \* "idle" | "loop" | "ok" | "err" | "panic"
    r_rbuf,     \* the read buffer of self.receiver
    r_fwd,      \* the responses msg_tx.send has accepted, in order
    r_rx,       \* the receiver of the forwarding channel: "alive" | "dropped"
    r_conn,     \* the peer's write half: "open" | "closed" | "reset"
    r_writes,   \* how many writes the peer has made
    \* --- broadcast: one Listener ---
    d_pc,       \* recv_once: "idle" | "recv" | "returned" | "err"
    d_buffer,   \* the local buffer of recv_once
    d_socket,   \* the datagrams the Listener's socket holds, in order of arrival
    d_seen,     \* the datagrams recv_from has returned during the call, in order
    d_ret       \* the SocketAddr recv_once returned

codecVars == << c_codec, c_dst, c_wire, c_sent, c_enc, c_src, c_rd, c_got, c_dec, c_reads, c_bytewise >>

connVars == << driver, build, conn, req_wire, resp_wire, resp_stream, p_sent >>

slaveVars == << s_pc, s_rbuf, s_wbuf, file_pool, file_metadata, disk, s_reqs, s_resps, s_flushed, s_last >>

masterVars == << m_pc, m_path, m_file_id, m_wbuf, read_bytes, fragment_index, status, stat_chan, stat_tx,
                 ctl_sent, polled_log, ctl_lost, abort_at, m_file, m_ret, res_chan >>

recvVars == << r_pc, r_rbuf, r_fwd, r_rx, r_conn, r_writes >>

discVars == << d_pc, d_buffer, d_socket, d_seen, d_ret >>

sysVars == << connVars, slaveVars, masterVars, recvVars, discVars >>

vars == << codecVars, sysVars >>

(***************************************************************************)
(* The codec pair driven over a byte stream.                               *)
(***************************************************************************)
RequestPool ==
    { Ping,
      FileFragment(2, 1, << 7, 9 >>),
      FileFragment(0, 0, Pattern(3, MAX_FILE_FARGMENT_SIZE)),
      FileFragment(1, 2, Pattern(5, MAX_CONTENT_SIZE - 17)),
      FileFragment(1, 0, Pattern(5, MAX_CONTENT_SIZE - 16)),
      FileMetadata(3, << 97, 195, 169 >>, << 48, 102 >>),
      EndOfFile(1),
      DropFile(255) }

ResponsePool ==
    { Pong, Ok, FileIdNotFound(0), CannotSaveFile(7), ChecksumNotMatched(255) }

CodecPool(codec) == IF codec = "request" THEN RequestPool ELSE ResponsePool

NoCall == [called |-> FALSE]

\* The byte stream that encoding msgs in order produces.
RECURSIVE Frames(_, _)
Frames(codec, msgs) ==
    IF msgs = << >> THEN << >>
    ELSE Frame(codec, Head(msgs)) \o Frames(codec, Tail(msgs))

\* A fresh FramedWrite / FramedRead pair.
CodecStart ==
    /\ c_dst = << >>
    /\ c_wire = << >>
    /\ c_sent = << >>
    /\ c_enc = NoCall
    /\ c_src = << >>
    /\ c_rd = "decode"
    /\ c_got = << >>
    /\ c_dec = NoCall
    /\ c_reads = 0
    /\ c_bytewise = TRUE

NoRequest == [called |-> FALSE]

\* A fresh connection with a fresh Slave on it: From<TcpStream> for Slave.
SlaveStart ==
    /\ conn = "open"
    /\ req_wire = << >>
    /\ resp_wire = << >>
    /\ resp_stream = << >>
    /\ p_sent = << >>
    /\ s_pc = "recv"
    /\ s_rbuf = << >>
    /\ s_wbuf = << >>
    /\ file_pool = EmptyMap
    /\ file_metadata = EmptyMap
    /\ disk = EmptyMap
    /\ s_reqs = << >>
    /\ s_resps = << >>
    /\ s_flushed = 0
    /\ s_last = NoRequest

NoPath == [file_name |-> << >>, kind |-> "missing", content |-> << >>]

\* Aborted has not been sent.
NoAbort == [ placed |-> FALSE ]

\* No SocketAddr.
NoAddr == [ ip |-> "none", port |-> 0 ]

\* A Listener bound to its port, recv_once not called yet.
ListenerStart ==
    /\ d_pc = "idle"
    /\ d_buffer = << >>
    /\ d_socket = << >>
    /\ d_seen = << >>
    /\ d_ret = NoAddr

\* A Master on a fresh connection, no call made: From<TcpStream> for Master.
MasterStart ==
    /\ m_pc = "idle"
    /\ m_path = NoPath
    /\ m_file_id = 255
    /\ m_wbuf = << >>
    /\ read_bytes = 0
    /\ fragment_index = 0
    /\ status = "Running"
    /\ stat_chan = << >>
    /\ stat_tx = "none"
    /\ ctl_sent = 0
    /\ polled_log = << >>
    /\ ctl_lost = "no"
    /\ abort_at = NoAbort
    /\ m_file = << >>
    /\ m_ret = "pending"
    /\ res_chan = << >>
    /\ r_pc = "idle"
    /\ r_rbuf = << >>
    /\ r_fwd = << >>
    /\ r_rx = "alive"
    /\ r_conn = "open"
    /\ r_writes = 0
    /\ ListenerStart

CodecInit ==
    /\ c_codec \in { "request", "response" }
    /\ CodecStart
    /\ driver = "codec"
    /\ build = "debug"
    /\ SlaveStart
    /\ MasterStart

\* FramedWrite::feed: encode(item, dst)
CodecEncode(m) ==
    /\ Len(c_sent) < MaxFrames
    /\ Len(Frames(c_codec, c_sent)) + 2 + Len(Serialize(c_codec, m)) <= MaxStream
    /\ ~(c_enc.called /\ c_enc.res = "DataTooLarge")
    /\ LET r == Encode(c_codec, m, c_dst) IN
        /\ c_enc' = [called |-> TRUE, item |-> m, before |-> c_dst, res |-> r.res, after |-> r.dst]
        /\ c_dst' = r.dst
        /\ c_sent' = IF r.res = "Ok" THEN Append(c_sent, m) ELSE c_sent
    /\ UNCHANGED << c_codec, c_wire, c_src, c_rd, c_got, c_dec, c_reads, c_bytewise >>
    /\ UNCHANGED sysVars

\* FramedWrite::flush: the buffer goes to the stream.
CodecFlush ==
    /\ c_dst # << >>
    /\ c_wire' = c_wire \o c_dst
    /\ c_dst' = << >>
    /\ UNCHANGED << c_codec, c_sent, c_enc, c_src, c_rd, c_got, c_dec, c_reads, c_bytewise >>
    /\ UNCHANGED sysVars

\* FramedRead: decode(src) on the buffer; None asks for a transport read.
CodecDecode ==
    /\ c_rd = "decode"
    /\ LET r == Decode(c_codec, c_src) IN
        /\ c_dec' = [called |-> TRUE, before |-> c_src, res |-> r.res,
                     item |-> IF r.res = "Some" THEN r.item ELSE Ping,
                     after |-> r.src]
        /\ c_src' = r.src
        /\ c_got' = IF r.res = "Some" THEN Append(c_got, r.item) ELSE c_got
        /\ c_rd' = CASE r.res = "Some" -> "decode"
                     [] r.res = "None" -> "read"
                     [] OTHER -> "failed"
    /\ UNCHANGED << c_codec, c_dst, c_wire, c_sent, c_enc, c_reads, c_bytewise >>
    /\ UNCHANGED sysVars

\* FramedRead: a transport read appends the next n bytes of the stream to the buffer.
CodecRead(n) ==
    /\ c_rd = "read"
    /\ n >= 1
    /\ n <= Len(c_wire)
    /\ c_reads < MaxReads
    /\ c_src' = c_src \o SubSeq(c_wire, 1, n)
    /\ c_wire' = SubSeq(c_wire, n + 1, Len(c_wire))
    /\ c_reads' = c_reads + 1
    /\ c_bytewise' = (c_bytewise /\ n = 1)
    /\ c_rd' = "decode"
    /\ UNCHANGED << c_codec, c_dst, c_sent, c_enc, c_got, c_dec >>
    /\ UNCHANGED sysVars

CodecNext ==
    \/ \E m \in CodecPool(c_codec) : CodecEncode(m)
    \/ CodecFlush
    \/ CodecDecode
    \/ \E n \in { 1, Len(c_wire) - 1, Len(c_wire) } : CodecRead(n)

SpecCodec == CodecInit /\ [][CodecNext]_vars

(***************************************************************************)
(* Codec claims, checked under SpecCodec.                                  *)
(***************************************************************************)
\* How many messages had been decoded when the last decode call was made.
DecK == IF c_dec.called /\ c_dec.res = "Some" THEN Len(c_got) - 1 ELSE Len(c_got)

\* The frame the last decode call was to find at the front of the stream
\* (empty when nothing more had been encoded).
NextFrame == IF DecK < Len(c_sent) THEN Frame(c_codec, c_sent[DecK + 1]) ELSE << >>

\* C3: frame round trip.  When decode is called on a buffer holding exactly
\* the bytes encode produced for a message m (serialized payload at most
\* 1498 bytes), it returns Some(m) and leaves the buffer empty.
C3_FrameRoundTrip ==
    (c_dec.called /\ DecK < Len(c_sent) /\ c_dec.before = NextFrame)
        => /\ c_dec.res = "Some"
           /\ c_dec.item = c_sent[DecK + 1]
           /\ c_dec.after = << >>

C3_Witness ==
    /\ c_dec.called /\ DecK < Len(c_sent) /\ c_dec.before = NextFrame
    /\ c_dec.res = "Some"
    /\ Len(Serialize(c_codec, c_dec.item)) = 1498

\* C4: oversize rejection.  encode fails with DataTooLarge exactly when the
\* serialized message exceeds 1498 bytes, and then appends nothing; when it
\* succeeds it appends the whole frame (2-byte length, then every payload
\* byte); a FileFragment with 1477 bytes of data always encodes.
C4_OversizeRejection ==
    c_enc.called =>
        LET data == Serialize(c_codec, c_enc.item) IN
        /\ (c_enc.res = "DataTooLarge") <=> (Len(data) > 1498)
        /\ c_enc.res = "DataTooLarge" => c_enc.after = c_enc.before
        /\ c_enc.res = "Ok" =>
              /\ Len(c_enc.after) = Len(c_enc.before) + 2 + Len(data)
              /\ IsPrefix(c_enc.before, c_enc.after)
              /\ Drop(c_enc.after, Len(c_enc.before) + 2) = data
        /\ (c_enc.item.kind = "FileFragment" /\ Len(c_enc.item.data) = 1477)
              => c_enc.res = "Ok"

C4_Witness ==
    /\ c_enc.called
    /\ c_enc.res = "DataTooLarge"
    /\ Len(Serialize(c_codec, c_enc.item)) = 1499
    /\ c_enc.before # << >>

\* C5: partial-frame resilience.  While the stream is read one byte at a
\* time with a decode call after each byte, every decode call made before
\* the last byte of the next frame is there returns None and leaves the
\* buffer as it was, and the call made once the frame is complete returns
\* exactly that frame's message.
C5_PartialFrame ==
    (c_bytewise /\ c_dec.called) =>
        /\ IsPrefix(c_dec.before, NextFrame)
        /\ IF NextFrame # << >> /\ c_dec.before = NextFrame
           THEN /\ c_dec.res = "Some"
                /\ c_dec.item = c_sent[DecK + 1]
                /\ c_dec.after = << >>
           ELSE /\ c_dec.res = "None"
                /\ c_dec.after = c_dec.before

C5_Witness ==
    /\ c_bytewise /\ c_dec.called
    /\ c_dec.res = "Some"
    /\ c_reads = Len(c_dec.before)
    /\ c_reads >= 6

\* C6: exact consumption.  A successful decode removes exactly total_length
\* bytes from the front of the buffer; the messages come out in the order
\* they were encoded; no byte of the stream is lost or duplicated; and a
\* decode that returns None leaves the partial frame in the buffer.
C6_ExactConsumption ==
    /\ (c_dec.called /\ c_dec.res = "Some") =>
          LET total_length == u8_array_to_u16(<< c_dec.before[1], c_dec.before[2] >>) IN
          /\ total_length <= Len(c_dec.before)
          /\ c_dec.after = SubSeq(c_dec.before, total_length + 1, Len(c_dec.before))
          /\ SubSeq(c_dec.before, 1, total_length) = NextFrame
    /\ IsPrefix(c_got, c_sent)
    /\ c_rd # "failed"
    /\ Frames(c_codec, c_got) \o c_src \o c_wire \o c_dst = Frames(c_codec, c_sent)
    /\ (c_dec.called /\ c_dec.res = "None") =>
          /\ c_dec.after = c_dec.before
          /\ IsPrefix(c_dec.before, NextFrame)
          /\ c_dec.before # NextFrame \/ NextFrame = << >>

\* One complete frame followed by a partial one was in the buffer: the first
\* call returned the message, the second None, the partial frame stays.
C6_Witness ==
    /\ c_dec.called /\ c_dec.res = "None"
    /\ Len(c_got) = 1
    /\ c_reads = 1
    /\ c_src # << >>
    /\ c_src = c_dec.after

(***************************************************************************)
(* The receiver engine: Slave::recv_request_thread on one connection.      *)
(***************************************************************************)
\* What creating and writing the file can come to: File::create fails,
\* write_all fails before any byte or after all but the last, or both succeed.
StorageOutcomes == { "ok", "create_err", "write_err_none", "write_err_short" }

\* The storage outcomes open to a request: only an EndOfFile that passes the
\* digest check gets to File::create.
StorageOutcomesOf(request, pool, meta) ==
    IF request.kind = "EndOfFile"
    THEN LET l == EndOfFileLookup(pool, meta, request.file_id) IN
         IF l.found /\ l.matches THEN StorageOutcomes ELSE { "none" }
    ELSE { "none" }

\* (mutant) DropFile leaves the fragment list where it is.
HandleDropFileKeeping(pool, meta, file_id) ==
    [ file_pool |-> pool, file_metadata |-> meta ]

\* The DropFile arm: self.file_pool.remove(&file_id), and nothing else.
HandleDropFile(pool, meta, file_id) ==
    [ file_pool |-> MapRemove(pool, file_id), file_metadata |-> meta ]

\* (mutant) the fragment list of an open file_id is kept.
HandleFileMetadataKeeping(pool, meta, file_id, file_name, sha256) ==
    [ file_pool |-> IF file_id \in DOMAIN pool THEN pool ELSE MapInsert(pool, file_id, << >>),
      file_metadata |-> MapInsert(meta, file_id, [file_name |-> file_name, sha256 |-> sha256]) ]

\* The FileMetadata arm: both maps get a fresh entry for file_id.
HandleFileMetadata(pool, meta, file_id, file_name, sha256) ==
    [ file_pool |-> MapInsert(pool, file_id, << >>),
      file_metadata |-> MapInsert(meta, file_id, [file_name |-> file_name, sha256 |-> sha256]) ]

\* (mutant) EndOfFile looks the entry up and leaves it in the map.
RemoveAtEndOfFileNot(map, file_id) == map

\* The EndOfFile arm takes the entry of file_id out of a map before it looks
\* at it: self.file_metadata.remove(&file_id), self.file_pool.remove(&file_id).
RemoveAtEndOfFile(map, file_id) == MapRemove(map, file_id)

\* handle_request(request) in the state (file_pool, file_metadata, disk):
\* the response, the state after, and what was done to the storage.
HandleRequest(request, pool, meta, dsk, bld, outcome) ==
    LET quiet == [ create_called |-> FALSE, write_called |-> FALSE, written |-> << >>,
                   path |-> << >>, lookup |-> [found |-> FALSE] ]
    IN
    CASE request.kind = "Ping" ->
            [ resp |-> Pong, file_pool |-> pool, file_metadata |-> meta, disk |-> dsk, io |-> quiet ]
      [] request.kind = "FileFragment" ->
            LET h == HandleFileFragment(pool, request.file_id, request.index, request.data) IN
            [ resp |-> h.resp, file_pool |-> h.file_pool, file_metadata |-> meta, disk |-> dsk,
              io |-> quiet ]
      [] request.kind = "FileMetadata" ->
            LET h == HandleFileMetadata(pool, meta, request.file_id, request.file_name,
                                        request.sha256) IN
            [ resp |-> Ok, file_pool |-> h.file_pool,
              file_metadata |-> h.file_metadata, disk |-> dsk, io |-> quiet ]
      [] request.kind = "DropFile" ->
            LET h == HandleDropFile(pool, meta, request.file_id) IN
            [ resp |-> Ok, file_pool |-> h.file_pool,
              file_metadata |-> h.file_metadata, disk |-> dsk, io |-> quiet ]
      [] request.kind = "EndOfFile" ->
            LET file_id == request.file_id
                l == EndOfFileLookup(pool, meta, file_id)
                pool2 == RemoveAtEndOfFile(pool, file_id)
                meta2 == RemoveAtEndOfFile(meta, file_id)
            IN
            IF ~l.found
            THEN [ resp |-> FileIdNotFound(file_id), file_pool |-> pool2, file_metadata |-> meta2,
                   disk |-> dsk, io |-> quiet ]
            ELSE IF ~l.matches
            THEN [ resp |-> ChecksumNotMatched(file_id), file_pool |-> pool2,
                   file_metadata |-> meta2, disk |-> dsk,
                   io |-> [quiet EXCEPT !.lookup = l] ]
            ELSE LET path == StoragePath(bld, l.file_name)
                     n == Len(l.file_content)
                 IN
                 CASE outcome = "create_err" ->
                        [ resp |-> CannotSaveFile(file_id), file_pool |-> pool2,
                          file_metadata |-> meta2, disk |-> dsk,
                          io |-> [ create_called |-> TRUE, write_called |-> FALSE,
                                   written |-> << >>, path |-> path, lookup |-> l ] ]
                   [] outcome = "ok" ->
                        [ resp |-> Ok, file_pool |-> pool2, file_metadata |-> meta2,
                          disk |-> MapInsert(dsk, path, l.file_content),
                          io |-> [ create_called |-> TRUE, write_called |-> TRUE,
                                   written |-> l.file_content, path |-> path, lookup |-> l ] ]
                   [] OTHER ->
                        [ resp |-> CannotSaveFile(file_id), file_pool |-> pool2,
                          file_metadata |-> meta2,
                          disk |-> MapInsert(dsk, path,
                                     IF outcome = "write_err_short" /\ n > 0
                                     THEN SubSeq(l.file_content, 1, n - 1) ELSE << >>),
                          io |-> [ create_called |-> TRUE, write_called |-> TRUE,
                                   written |-> l.file_content, path |-> path, lookup |-> l ] ]

\* The responses that report a failure of the protocol.
FailureKinds == { "FileIdNotFound", "ChecksumNotMatched", "CannotSaveFile" }

\* (mutant) a response that reports a failure ends the loop.
LoopAfterFatal(resp, done) ==
    IF resp.kind \in FailureKinds THEN "err"
    ELSE IF done THEN "recv" ELSE "respond"

\* Where recv_request_thread is after send_response has fed resp: back at
\* receiver.next() once the flush is complete, whatever the response.
LoopAfter(resp, done) == IF done THEN "recv" ELSE "respond"

\* (mutant) the next request is taken while a response is still unsent.
ReadyToReceiveAlways == s_pc \in { "recv", "respond" }

\* The loop is at self.receiver.next().await: the previous response, if any,
\* has been fed and flushed.
ReadyToReceive == s_pc = "recv"

\* The bytes the connection holds in flight per direction.
ReqCapacity == IF driver = "peer" THEN ReqCap ELSE SendCap

RespCapacity == IF driver = "peer" THEN RespCap ELSE RecvCap

\* sender.flush() on the write buffer wbuf: the bytes the response socket
\* buffer takes now; the flush is complete when none is left.
FlushStep(wbuf, wire) ==
    LET k == Min(Len(wbuf), RespCapacity - Len(wire)) IN
    [ out |-> SubSeq(wbuf, 1, k), wbuf |-> SubSeq(wbuf, k + 1, Len(wbuf)),
      done |-> k = Len(wbuf) ]

\* receiver.next() yields Some(Ok(request)); handle_request runs and
\* send_response feeds the response and starts flushing it.
SlaveHandle ==
    /\ ReadyToReceive
    /\ Decode("request", s_rbuf).res = "Some"
    /\ \E outcome \in StorageOutcomesOf(Decode("request", s_rbuf).item, file_pool, file_metadata) :
        LET d == Decode("request", s_rbuf)
            h == HandleRequest(d.item, file_pool, file_metadata, disk, build, outcome)
            e == Encode("response", h.resp, s_wbuf)
            f == FlushStep(e.dst, resp_wire)
        IN
        /\ s_rbuf' = d.src
        /\ file_pool' = h.file_pool
        /\ file_metadata' = h.file_metadata
        /\ disk' = h.disk
        /\ s_reqs' = Append(s_reqs, d.item)
        /\ s_resps' = Append(s_resps, h.resp)
        /\ s_last' = [ called |-> TRUE, request |-> d.item, resp |-> h.resp,
                       pool_before |-> file_pool, meta_before |-> file_metadata,
                       disk_before |-> disk, io |-> h.io ]
        /\ IF e.res # "Ok"
           THEN /\ s_pc' = "err"
                /\ s_wbuf' = e.dst
                /\ UNCHANGED << resp_wire, resp_stream, s_flushed >>
           ELSE IF conn = "reset"
           THEN /\ s_pc' = "err"
                /\ s_wbuf' = e.dst
                /\ UNCHANGED << resp_wire, resp_stream, s_flushed >>
           ELSE /\ s_wbuf' = f.wbuf
                /\ resp_wire' = resp_wire \o f.out
                /\ resp_stream' = resp_stream \o f.out
                /\ s_pc' = LoopAfter(h.resp, f.done)
                /\ s_flushed' = IF f.done THEN s_flushed + 1 ELSE s_flushed
    /\ UNCHANGED << driver, build, conn, req_wire, p_sent, codecVars, discVars, recvVars, masterVars >>

\* receiver.next(): the buffer holds no complete frame and the read takes
\* the bytes the request socket holds.
SlaveRead ==
    /\ ReadyToReceive
    /\ Decode("request", s_rbuf).res = "None"
    /\ req_wire # << >>
    /\ s_rbuf' = s_rbuf \o req_wire
    /\ req_wire' = << >>
    /\ UNCHANGED << s_pc, s_wbuf, file_pool, file_metadata, disk, s_reqs, s_resps, s_flushed, s_last >>
    /\ UNCHANGED << driver, build, conn, resp_wire, resp_stream, p_sent, codecVars, discVars, recvVars, masterVars >>

\* receiver.next() ends the loop: None at end of stream (Ok), Some(Err) on a
\* decode error, a transport error or bytes left over at end of stream.
SlaveStop ==
    /\ ReadyToReceive
    /\ LET r == Decode("request", s_rbuf).res IN
       \/ /\ r = "None" /\ conn = "closed" /\ req_wire = << >>
          /\ s_pc' = IF s_rbuf = << >> THEN "ok" ELSE "err"
       \/ /\ r = "None" /\ conn = "reset"
          /\ s_pc' = "err"
       \/ /\ r = "Err"
          /\ s_pc' = "err"
       \/ /\ r = "Panic"
          /\ s_pc' = "panic"
    /\ UNCHANGED << s_rbuf, s_wbuf, file_pool, file_metadata, disk, s_reqs, s_resps, s_flushed, s_last >>
    /\ UNCHANGED << connVars, codecVars, discVars, recvVars, masterVars >>

\* send_response: sender.flush() goes on when the response socket buffer has
\* room again; the loop goes on once the whole response is out.
SlaveFlush ==
    /\ s_pc = "respond"
    /\ LET f == FlushStep(s_wbuf, resp_wire) IN
        IF conn = "reset"
        THEN /\ s_pc' = "err"
             /\ UNCHANGED << resp_wire, resp_stream, s_wbuf, s_flushed >>
        ELSE /\ Len(f.out) >= 1
             /\ resp_wire' = resp_wire \o f.out
             /\ resp_stream' = resp_stream \o f.out
             /\ s_wbuf' = f.wbuf
             /\ s_pc' = LoopAfter(s_last.resp, f.done)
             /\ s_flushed' = IF f.done THEN s_flushed + 1 ELSE s_flushed
    /\ UNCHANGED << s_rbuf, file_pool, file_metadata, disk, s_reqs, s_resps, s_last >>
    /\ UNCHANGED << driver, build, conn, req_wire, p_sent, codecVars, discVars, recvVars, masterVars >>

(***************************************************************************)
(* An arbitrary peer on the other end of the receiver's connection.        *)
(***************************************************************************)
Name_a == << 97 >>

PeerPool ==
    { Ping,
      FileMetadata(1, Name_a, Digest(<< 1, 2 >>)),
      FileFragment(1, 0, << 1 >>),
      FileFragment(1, 1, << 2 >>),
      FileFragment(1, 0, << 2 >>),
      EndOfFile(1),
      DropFile(1) }

PeerSend(request) ==
    /\ driver = "peer"
    /\ conn = "open"
    /\ Len(p_sent) < MaxRequests
    /\ Len(req_wire) + Len(Frame("request", request)) <= ReqCapacity
    /\ req_wire' = req_wire \o Frame("request", request)
    /\ p_sent' = Append(p_sent, request)
    /\ UNCHANGED << driver, build, conn, resp_wire, resp_stream, slaveVars, codecVars, discVars, recvVars, masterVars >>

\* The peer shuts down its write half.
PeerClose ==
    /\ driver = "peer"
    /\ conn = "open"
    /\ conn' = "closed"
    /\ UNCHANGED << driver, build, req_wire, resp_wire, resp_stream, p_sent, slaveVars, codecVars, discVars, recvVars, masterVars >>

\* The peer takes the responses off its socket once the receiver waits for
\* room in it.
PeerDrain ==
    /\ driver = "peer"
    /\ resp_wire # << >>
    /\ s_pc = "respond"
    /\ resp_wire' = << >>
    /\ UNCHANGED << driver, build, conn, req_wire, resp_stream, p_sent, slaveVars, codecVars, discVars, recvVars, masterVars >>

SlaveInit ==
    /\ driver = "peer"
    /\ build = "debug"
    /\ SlaveStart
    /\ MasterStart
    /\ c_codec = "request"
    /\ CodecStart

SlaveNext ==
    \/ \E request \in PeerPool : PeerSend(request)
    \/ PeerClose
    \/ PeerDrain
    \/ SlaveHandle
    \/ SlaveRead
    \/ SlaveStop
    \/ SlaveFlush

SpecSlave == SlaveInit /\ [][SlaveNext]_vars

(***************************************************************************)
(* Claims about the receiver engine.                                       *)
(***************************************************************************)
Perms(n) == { p \in [1..n -> 1..n] : \A i, j \in 1..n : p[i] = p[j] => i = j }

Arrange(frags, p) == [i \in 1..Len(frags) |-> frags[p[i]]]

\* The arrangements of the fragments in which the indices never decrease.
AscendingArrangements(frags) ==
    { Arrange(frags, p) : p \in { q \in Perms(Len(frags)) :
        \A i, j \in 1..Len(frags) : i < j => frags[q[i]][1] <= frags[q[j]][1] } }

DistinctIndices(frags) ==
    \A i, j \in 1..Len(frags) : frags[i][1] = frags[j][1] => i = j

\* The request handled last was an EndOfFile for a file_id with an open
\* transfer (recorded metadata and a fragment list).
EndOfFileOnOpen ==
    /\ s_last.called
    /\ s_last.request.kind = "EndOfFile"
    /\ s_last.request.file_id \in DOMAIN s_last.pool_before
    /\ s_last.request.file_id \in DOMAIN s_last.meta_before

ArrivedLast == s_last.pool_before[s_last.request.file_id]

DeclaredLast == s_last.meta_before[s_last.request.file_id].sha256

\* C1: checksum gate. On EndOfFile for an open file_id, if no ascending
\* arrangement of the fragments has the declared digest the response is
\* ChecksumNotMatched and the storage is not touched (no create, no write);
\* whatever is written is the concatenation of the payloads in ascending index
\* order and has the declared digest; and after the response Ok the file
\* holds exactly these bytes.
C1_ChecksumGate ==
    EndOfFileOnOpen =>
        LET id == s_last.request.file_id
            io == s_last.io
            ascending == { ConcatData(a) : a \in AscendingArrangements(ArrivedLast) }
        IN
        /\ s_last.resp \in { Ok, ChecksumNotMatched(id), CannotSaveFile(id) }
        /\ (\A c \in ascending : Digest(c) # DeclaredLast)
              => s_last.resp = ChecksumNotMatched(id)
        /\ s_last.resp = ChecksumNotMatched(id)
              => /\ ~io.create_called
                 /\ ~io.write_called
                 /\ disk = s_last.disk_before
                 /\ \E c \in ascending : Digest(c) # DeclaredLast
        /\ io.write_called => io.create_called
        /\ io.create_called => \E c \in ascending : Digest(c) = DeclaredLast
        /\ io.write_called => /\ io.written \in ascending
                              /\ Digest(io.written) = DeclaredLast
        /\ s_last.resp = Ok => /\ io.write_called
                               /\ io.path \in DOMAIN disk
                               /\ disk[io.path] = io.written

\* Fragments arrived out of index order, the digest matched and the file was
\* written in index order.
C1_Witness ==
    /\ EndOfFileOnOpen
    /\ Len(ArrivedLast) = 2
    /\ ArrivedLast[1][1] > ArrivedLast[2][1]
    /\ s_last.resp = Ok
    /\ s_last.io.written = << 1, 2 >>
    /\ disk[s_last.io.path] = << 1, 2 >>

\* What EndOfFile reassembles had the fragments arrived as frags, and whether
\* it passes the digest check (which fixes the response and the file).
Reassembled(frags) ==
    LET l == EndOfFileLookup(MapInsert(s_last.pool_before, s_last.request.file_id, frags),
                             s_last.meta_before, s_last.request.file_id)
    IN << l.file_content, l.matches >>

\* C2 as stated: every permutation of the arrival order of the fragments of
\* one file_id reassembles to the same bytes (and the same check result).
C2_AnyPermutation ==
    EndOfFileOnOpen =>
        \A p \in Perms(Len(ArrivedLast)) :
            Reassembled(Arrange(ArrivedLast, p)) = Reassembled(ArrivedLast)

\* C2: fragment reordering. When the fragments of one file_id carry pairwise
\* distinct indices, every permutation of their arrival order between
\* FileMetadata and EndOfFile reassembles to the same byte sequence, that of
\* arrival in index order, with the same result of the digest check.
C2_Reordering ==
    (EndOfFileOnOpen /\ DistinctIndices(ArrivedLast)) =>
        \A p \in Perms(Len(ArrivedLast)) :
            /\ Reassembled(Arrange(ArrivedLast, p)) = Reassembled(ArrivedLast)
            /\ Reassembled(ArrivedLast)[1] \in
                   { ConcatData(a) : a \in AscendingArrangements(ArrivedLast) }

\* Two fragments with distinct indices that arrived in descending order.
C2_Witness ==
    /\ EndOfFileOnOpen
    /\ Len(ArrivedLast) >= 2
    /\ DistinctIndices(ArrivedLast)
    /\ \E i \in 1..(Len(ArrivedLast) - 1) : ArrivedLast[i][1] > ArrivedLast[i + 1][1]

\* The responses handle_request can give to a request.
Answers(request) ==
    CASE request.kind = "Ping" -> { Pong }
      [] request.kind = "FileMetadata" -> { Ok }
      [] request.kind = "DropFile" -> { Ok }
      [] request.kind = "FileFragment" -> { Ok, FileIdNotFound(request.file_id) }
      [] request.kind = "EndOfFile" ->
            { Ok, FileIdNotFound(request.file_id), ChecksumNotMatched(request.file_id),
              CannotSaveFile(request.file_id) }

\* C7: request/response lockstep. The requests decoded are, in order, the
\* first requests the peer sent; there is one response per decoded request,
\* an answer to that request, and the bytes written to the connection are the
\* frames of these responses in request order; the number of responses
\* written and flushed equals the number of requests decoded or is one less,
\* and it is equal whenever the loop is about to take the next request.
C7_Lockstep ==
    /\ IsPrefix(s_reqs, p_sent)
    /\ Len(s_resps) = Len(s_reqs)
    /\ \A i \in 1..Len(s_reqs) : s_resps[i] \in Answers(s_reqs[i])
    /\ s_flushed \in { Len(s_reqs), Len(s_reqs) - 1 }
    /\ s_pc = "recv" => s_flushed = Len(s_reqs)
    /\ s_flushed = Len(s_reqs) => resp_stream = Frames("response", s_resps)
    /\ s_flushed < Len(s_reqs) =>
          /\ IsPrefix(Frames("response", SubSeq(s_resps, 1, s_flushed)), resp_stream)
          /\ IsPrefix(resp_stream, Frames("response", s_resps))
          /\ resp_stream # Frames("response", s_resps)

\* Three requests are in the receiver's buffer, two are decoded and the
\* second response is only partly written: the third request waits.
C7_Witness ==
    /\ Len(s_reqs) = 2
    /\ s_flushed = 1
    /\ s_pc = "respond"
    /\ s_wbuf # << >>
    /\ Decode("request", s_rbuf).res = "Some"

\* C8: unknown id handling. Whenever the receiver handles a FileFragment or
\* an EndOfFile whose file_id has no open transfer the response is
\* FileIdNotFound, and for such a DropFile it is Ok; in all three cases the
\* loop goes on (it sends the response and takes the next request) and no
\* file is created or written.
C8_UnknownId ==
    [][ ( /\ Len(s_reqs') = Len(s_reqs) + 1
          /\ s_last'.request.kind \in { "FileFragment", "EndOfFile", "DropFile" }
          /\ s_last'.request.file_id \notin DOMAIN file_pool )
        => /\ s_last'.resp = IF s_last'.request.kind = "DropFile"
                             THEN Ok ELSE FileIdNotFound(s_last'.request.file_id)
           /\ s_resps' = Append(s_resps, s_last'.resp)
           /\ s_pc' \in { "recv", "respond" }
           /\ disk' = disk
           /\ ~s_last'.io.create_called
           /\ ~s_last'.io.write_called
           /\ file_pool' = file_pool ]_vars

\* A DropFile, a FileFragment and an EndOfFile were handled and answered
\* with no transfer ever opened, and the loop waits for the next request.
C8_Witness ==
    /\ \A i \in 1..Len(s_reqs) : s_reqs[i].kind # "FileMetadata"
    /\ \E i, j, k \in 1..Len(s_reqs) :
          /\ s_reqs[i].kind = "DropFile" /\ s_resps[i] = Ok
          /\ s_reqs[j].kind = "FileFragment" /\ s_resps[j] = FileIdNotFound(s_reqs[j].file_id)
          /\ s_reqs[k].kind = "EndOfFile" /\ s_resps[k] = FileIdNotFound(s_reqs[k].file_id)
    /\ s_flushed = 3
    /\ s_pc = "recv"
    /\ disk = EmptyMap

(***************************************************************************)
(* The sender engine: Master::send_a_file and Master::do_send_a_file.      *)
(***************************************************************************)
\* "Untitled"
Untitled == << 85, 110, 116, 105, 116, 108, 101, 100 >>

\* The paths a call is given: the root directory (no file name), a path
\* that does not exist, and regular files of 0, 3 and 1478 bytes.
PathPool ==
    { [file_name |-> << >>, kind |-> "dir", content |-> << >>],
      [file_name |-> << 110 >>, kind |-> "missing", content |-> << >>],
      [file_name |-> << 101 >>, kind |-> "file", content |-> << >>],
      [file_name |-> << 115 >>, kind |-> "file", content |-> << 1, 2, 3 >>],
      [file_name |-> << 98 >>, kind |-> "file", content |-> Pattern(9, MAX_FILE_FARGMENT_SIZE + 1)] }

\* path.file_name(), "Untitled" when the path has none
FileName(path) == IF path.file_name = << >> THEN Untitled ELSE path.file_name

\* metadata.len()
FileLength(path) == Len(path.content)

\* (mutant) every fragment carries index 0.
NextIndexStuck(index) == index

\* fragment_index += 1
NextIndex(index) == index + 1

\* file.read(&mut buf) at position read_bytes: how many bytes it returns.
ReadSize(path, pos) ==
    IF pos >= FileLength(path) THEN 0
    ELSE Min(MAX_FILE_FARGMENT_SIZE, FileLength(path) - pos)

\* buf[0..read].to_vec() after the read at position pos
Chunk(path, pos) == SubSeq(path.content, pos + 1, pos + ReadSize(path, pos))

\* (mutant) a read of zero bytes is sent as a fragment like any other.
ReadEndsNever(read) == FALSE

\* if read == 0 { break; }
ReadEnds(read) == read = 0

\* sender.flush() on the write buffer wbuf: the bytes the request socket
\* buffer takes now.
RequestFlushStep(wbuf, wire) ==
    LET k == Min(Len(wbuf), ReqCapacity - Len(wire)) IN
    [ out |-> SubSeq(wbuf, 1, k), wbuf |-> SubSeq(wbuf, k + 1, Len(wbuf)) ]

\* Who has stat_sender while the transfer runs: send_a_file keeps it in a
\* local until it returns; a direct caller of do_send_a_file has it.
SenderHeld ==
    IF stat_tx # "none" THEN stat_tx
    ELSE IF driver = "send_a_file" THEN "callee" ELSE "caller"

\* (mutant) send_a_file returns without sending the result.
ReturnSilently(ret) ==
    /\ m_pc' = "returned"
    /\ m_ret' = ret
    /\ res_chan' = res_chan
    /\ stat_tx' = IF driver = "send_a_file" \/ stat_tx = "none" THEN "caller" ELSE stat_tx

\* do_send_a_file returns ret; send_a_file then puts it on the result
\* channel and hands the two channel ends to its caller.
Return(ret) ==
    /\ m_pc' = "returned"
    /\ m_ret' = ret
    /\ res_chan' = IF driver = "send_a_file" THEN Append(res_chan, ret) ELSE res_chan
    /\ stat_tx' = IF driver = "send_a_file" \/ stat_tx = "none" THEN "caller" ELSE stat_tx

\* (mutant) a failed write is not reported.
WriteFailedOk == "Ok"

\* What send_request returns when the write on the connection fails:
\* self.sender.flush().await?
WriteFailed == "Io"

\* send_request(request): feed, then flush as far as the socket takes it;
\* on a connection that is reset the write fails and nothing is sent.
\* next is where do_send_a_file goes on once the flush is complete.
SendRequest(request, next) ==
    LET e == Encode("request", request, m_wbuf)
        f == RequestFlushStep(e.dst, req_wire)
    IN
    IF e.res # "Ok"
    THEN /\ Return(e.res)
         /\ UNCHANGED << m_wbuf, req_wire, p_sent >>
    ELSE IF conn = "reset"
    THEN /\ Return(WriteFailed)
         /\ UNCHANGED << m_wbuf, req_wire, p_sent >>
    ELSE /\ m_pc' = next
         /\ m_wbuf' = f.wbuf
         /\ req_wire' = req_wire \o f.out
         /\ p_sent' = Append(p_sent, request)
         /\ stat_tx' = SenderHeld
         /\ UNCHANGED << m_ret, res_chan >>

\* send_a_file, do_send_a_file and recv_responses all take `&mut self`: a
\* call that has not returned holds the Master, its sender and its receiver
\* alike, and no other method of it can be called meanwhile.
SendBorrows == m_pc \in { "loop", "eof", "drop" }

RecvBorrows == r_pc = "loop"

\* The call, to the first send_request: the channels are made, then
\* do_send_a_file opens the file, takes its digest and sends FileMetadata.
MasterCall(path, digest_ok) ==
    /\ driver \in { "send_a_file", "do_send_a_file" }
    /\ m_pc = "idle"
    /\ ~RecvBorrows
    /\ conn = "open"
    /\ m_path' = path
    /\ m_file' = path.content
    /\ IF path.kind = "missing"
       THEN /\ Return("Io")
            /\ UNCHANGED << m_file_id, m_wbuf, req_wire, p_sent >>
       ELSE IF path.kind # "file"
       THEN /\ Return("NotAFile")
            /\ UNCHANGED << m_file_id, m_wbuf, req_wire, p_sent >>
       ELSE IF ~digest_ok
       THEN /\ Return("Sha256Digest")
            /\ UNCHANGED << m_file_id, m_wbuf, req_wire, p_sent >>
       ELSE LET sha256 == Digest(path.content) IN
            /\ m_file_id' = FileIdOf(sha256)
            /\ SendRequest(FileMetadata(FileIdOf(sha256), FileName(path), sha256), "loop")
    /\ UNCHANGED << read_bytes, fragment_index, status, stat_chan, ctl_sent, polled_log, ctl_lost, abort_at >>
    /\ UNCHANGED << driver, build, conn, resp_wire, resp_stream, slaveVars, codecVars, discVars, recvVars >>

\* send_request: the flush goes on when the request socket has room again.
MasterFlush ==
    /\ m_pc \in { "loop", "eof", "drop" }
    /\ m_wbuf # << >>
    /\ conn # "reset"
    /\ LET f == RequestFlushStep(m_wbuf, req_wire) IN
        /\ Len(f.out) >= 1
        /\ m_wbuf' = f.wbuf
        /\ req_wire' = req_wire \o f.out
    /\ UNCHANGED << m_pc, m_path, m_file_id, read_bytes, fragment_index, status, stat_chan,
                    stat_tx, ctl_sent, polled_log, ctl_lost, abort_at, m_file, m_ret, res_chan >>
    /\ UNCHANGED << driver, build, conn, resp_wire, resp_stream, p_sent, slaveVars, codecVars, discVars, recvVars >>

\* The file behind the handle `file`: the path's file as it is now.
OpenedFile == [ m_path EXCEPT !.content = m_file ]

\* (mutant) the message taken off the channel is ignored.
TryRecvIgnored(chan, st) == st

\* match rx.try_recv() { Ok(v) => status = v, Err(TryRecvError::Empty) => {} }:
\* the status the turn goes on with.
TryRecv(chan, st) == IF chan # << >> THEN Head(chan) ELSE st

\* try_recv() is Err(TryRecvError::Disconnected): the channel is empty and
\* its sender is gone.
DisconnectedNever(chan, tx) == FALSE

Disconnected(chan, tx) == chan = << >> /\ tx = "dropped"

\* What the Disconnected arm sends before it returns Ok(()).
DisconnectRequest(file_id) == DropFile(file_id)

\* `match status`: only Running goes on to read and send the next chunk.
ProceedsUnlessAborted(st) == st # "Aborted"

Proceeds(st) == st = "Running"

\* The Aborted arm: the request it sends, and that it returns after it.
AbortRequestEndOfFile(file_id) == EndOfFile(file_id)

AbortRequest(file_id) == DropFile(file_id)

AbortNextLoop == "loop"

AbortNext == "drop"

\* One turn of `while read_bytes < file_length`, to its send_request, or
\* the EndOfFile after the loop.
MasterIterate ==
    /\ m_pc = "loop"
    /\ m_wbuf = << >>
    /\ LET file_id == m_file_id
           polled == TryRecv(stat_chan, status)
       IN
       IF read_bytes >= FileLength(m_path)
       THEN /\ SendRequest(EndOfFile(file_id), "eof")
            /\ UNCHANGED << read_bytes, fragment_index, status, stat_chan, polled_log, ctl_lost, abort_at, m_file >>
       ELSE IF Disconnected(stat_chan, stat_tx)
       THEN /\ SendRequest(DisconnectRequest(file_id), "drop")
            /\ UNCHANGED << read_bytes, fragment_index, status, stat_chan, polled_log, ctl_lost, abort_at, m_file >>
       ELSE /\ status' = polled
            /\ stat_chan' = IF stat_chan # << >> THEN Tail(stat_chan) ELSE stat_chan
            /\ polled_log' = IF stat_chan # << >> THEN Append(polled_log, polled)
                                                  ELSE polled_log
            /\ IF Proceeds(polled) /\ ReadEnds(ReadSize(OpenedFile, read_bytes))
               THEN /\ SendRequest(EndOfFile(file_id), "eof")
                    /\ UNCHANGED << read_bytes, fragment_index >>
               ELSE IF Proceeds(polled)
               THEN /\ read_bytes' = read_bytes + ReadSize(OpenedFile, read_bytes)
                    /\ fragment_index' = NextIndex(fragment_index)
                    /\ SendRequest(FileFragment(file_id, fragment_index,
                                                Chunk(OpenedFile, read_bytes)), "loop")
               ELSE IF polled = "Aborted"
               THEN /\ SendRequest(AbortRequest(file_id), AbortNext)
                    /\ UNCHANGED << read_bytes, fragment_index >>
               ELSE UNCHANGED << m_pc, m_wbuf, req_wire, p_sent, m_ret, res_chan, stat_tx,
                                 read_bytes, fragment_index >>
    /\ UNCHANGED << m_path, m_file_id, ctl_sent, ctl_lost, abort_at, m_file >>
    /\ UNCHANGED << driver, build, conn, resp_wire, resp_stream, slaveVars, codecVars, discVars, recvVars >>

\* The terminal request is flushed: do_send_a_file returns Ok(()).
MasterReturn ==
    /\ m_pc \in { "eof", "drop" }
    /\ m_wbuf = << >>
    /\ Return("Ok")
    /\ UNCHANGED << m_path, m_file_id, m_wbuf, read_bytes, fragment_index, status, stat_chan,
                    ctl_sent, polled_log, ctl_lost, abort_at, m_file >>
    /\ UNCHANGED << connVars, slaveVars, codecVars, discVars, recvVars >>

\* Master::close after the call: the write half is shut down.
MasterClose ==
    /\ driver \in { "send_a_file", "do_send_a_file" }
    /\ m_pc = "returned"
    /\ conn = "open"
    /\ conn' = "closed"
    /\ UNCHANGED << driver, build, req_wire, resp_wire, resp_stream, p_sent >>
    /\ UNCHANGED << slaveVars, masterVars, codecVars, discVars, recvVars >>

(***************************************************************************)
(* The holder of the control handle while the transfer's receiver end is   *)
(* alive.                                                                  *)
(***************************************************************************)
TaskStatus == { "Running", "Paused", "Aborted" }

\* How many of the requests are FileFragment.
FragmentCount(requests) == Len(SelectSeq(requests, LAMBDA r : r.kind = "FileFragment"))

\* stat_sender.send(st), by a controller that sends max messages at most.
CtlSendUpTo(st, max) ==
    /\ stat_tx = "caller"
    /\ m_pc \in { "loop", "eof", "drop" }
    /\ ctl_sent < max
    /\ stat_chan' = Append(stat_chan, st)
    /\ ctl_sent' = ctl_sent + 1
    /\ abort_at' = IF st = "Aborted" /\ ~abort_at.placed
                       /\ m_pc = "loop" /\ read_bytes < FileLength(m_path)
                   THEN [ placed |-> TRUE, fragments |-> FragmentCount(p_sent),
                          ahead |-> stat_chan ]
                   ELSE abort_at
    /\ UNCHANGED << m_pc, m_path, m_file_id, m_wbuf, read_bytes, fragment_index, status,
                    stat_tx, polled_log, ctl_lost, m_file, m_ret, res_chan >>
    /\ UNCHANGED << connVars, slaveVars, codecVars, discVars, recvVars >>

\* stat_sender.send(st)
CtlSend(st) == CtlSendUpTo(st, MaxCtl)

\* drop(stat_sender)
CtlDrop ==
    /\ stat_tx = "caller"
    /\ m_pc \in { "loop", "eof", "drop" }
    /\ stat_tx' = "dropped"
    /\ ctl_lost' = IF m_pc = "loop" /\ read_bytes < FileLength(m_path)
                   THEN "chunks" ELSE ctl_lost
    /\ UNCHANGED << m_pc, m_path, m_file_id, m_wbuf, read_bytes, fragment_index, status,
                    stat_chan, ctl_sent, polled_log, abort_at, m_file, m_ret, res_chan >>
    /\ UNCHANGED << connVars, slaveVars, codecVars, discVars, recvVars >>

\* A Master created from a connected stream, with a Slave running
\* recv_request_thread on the other end. The call made is send_a_file, or
\* do_send_a_file with a control channel whose sender the caller keeps.
Init ==
    /\ driver \in { "send_a_file", "do_send_a_file" }
    /\ build = "debug"
    /\ SlaveStart
    /\ MasterStart
    /\ c_codec = "request"
    /\ CodecStart

\* The responses stay in the Master's socket during the call (nothing reads
\* self.receiver), so a Slave waiting for room in it waits on.
Next ==
    \/ \E path \in PathPool, digest_ok \in BOOLEAN : MasterCall(path, digest_ok)
    \/ MasterFlush
    \/ MasterIterate
    \/ MasterReturn
    \/ MasterClose
    \/ \E st \in TaskStatus : CtlSend(st)
    \/ CtlDrop
    \/ SlaveRead
    \/ SlaveHandle
    \/ SlaveStop

Spec == Init /\ [][Next]_vars

(***************************************************************************)
(* Claims about the sender engine.                                         *)
(***************************************************************************)
\* The caller of send_a_file holds the control handle and the result
\* channel: the call has returned.
CallerHoldsHandles == stat_tx = "caller"

\* The transfer has sent FileMetadata and still has chunks to send.
ChunksRemain ==
    /\ m_pc = "loop"
    /\ read_bytes < FileLength(m_path)

\* C9: send_a_file returns the control handle and the result channel without
\* waiting for the transfer: whenever the transfer of a send_a_file call still
\* has fragments to send, the caller already holds the control handle, so
\* that a Paused or Aborted it sends can act on the remaining fragments.
C9_ReturnsWithoutWaiting ==
    (driver = "send_a_file" /\ ChunksRemain) => CallerHoldsHandles

\* The FileFragment requests among the requests issued.
FragmentsSent == SelectSeq(p_sent, LAMBDA r : r.kind = "FileFragment")

RECURSIVE ConcatFragments(_)
ConcatFragments(frags) ==
    IF frags = << >> THEN << >>
    ELSE ConcatFragments(SubSeq(frags, 1, Len(frags) - 1)) \o frags[Len(frags)].data

\* C10: sender sequencing. The first request of a transfer is FileMetadata;
\* the FileFragment requests follow it directly, one after the other, the
\* i-th of them (from 0) with index i; every fragment holds between 1 and
\* 1477 bytes, and put one after the other in index order the fragments are
\* the first read_bytes bytes of the file.
C10_SenderSequencing ==
    LET n == Len(FragmentsSent) IN
    /\ p_sent # << >> => p_sent[1].kind = "FileMetadata"
    /\ \A i \in 1..Len(p_sent) : p_sent[i].kind = "FileFragment" <=> (i >= 2 /\ i <= n + 1)
    /\ \A i \in 1..n :
          /\ FragmentsSent[i].index = i - 1
          /\ Len(FragmentsSent[i].data) >= 1
          /\ Len(FragmentsSent[i].data) <= MAX_FILE_FARGMENT_SIZE
    /\ ConcatFragments(FragmentsSent) = SubSeq(m_path.content, 1, read_bytes)
    /\ n = fragment_index

\* A file of 1478 bytes went out as FileMetadata, fragment 0 with 1477
\* bytes, fragment 1 with the last byte, and EndOfFile.
C10_Witness ==
    /\ Len(p_sent) = 4
    /\ p_sent[1].kind = "FileMetadata"
    /\ p_sent[2].kind = "FileFragment" /\ p_sent[2].index = 0
    /\ Len(p_sent[2].data) = MAX_FILE_FARGMENT_SIZE
    /\ p_sent[3].kind = "FileFragment" /\ p_sent[3].index = 1
    /\ p_sent[3].data = << m_path.content[MAX_FILE_FARGMENT_SIZE + 1] >>
    /\ p_sent[4].kind = "EndOfFile"
    /\ m_ret = "Ok"

(***************************************************************************)
(* Claims about the control channel of a transfer.                         *)
(***************************************************************************)
\* C11: pause. A turn of the loop that leaves the status Paused sends no
\* FileFragment and changes neither read_bytes nor fragment_index; the turn
\* on which a paused transfer becomes Running again sends exactly the next
\* unsent fragment: its index is the number of fragments sent so far and its
\* data starts at the first byte of the file not yet sent.
C11_Pause ==
    [][ /\ (m_pc = "loop" /\ status' = "Paused") =>
             /\ FragmentsSent' = FragmentsSent
             /\ read_bytes' = read_bytes
             /\ fragment_index' = fragment_index
        /\ (status = "Paused" /\ status' = "Running") =>
             /\ p_sent' = Append(p_sent, FileFragment(m_file_id, Len(FragmentsSent),
                                                      Chunk(m_path, Len(ConcatFragments(FragmentsSent)))))
             /\ fragment_index' = Len(FragmentsSent) + 1
      ]_vars

\* The 1478-byte file was paused, resumed, and went out whole.
C11_Witness ==
    /\ polled_log = << "Paused", "Running" >>
    /\ Len(FragmentsSent) = 2
    /\ ConcatFragments(FragmentsSent) = m_path.content
    /\ m_pc = "returned"

\* C12: abort. Once the polled status is Aborted the last request sent is
\* DropFile with the transfer's file_id (so no FileFragment and no EndOfFile
\* follows it, and no EndOfFile was sent before it), the loop is left, and
\* what the transfer returns is Ok.
C12_Abort ==
    status = "Aborted" =>
        /\ m_pc \in { "drop", "returned" }
        /\ p_sent[Len(p_sent)] = DropFile(m_file_id)
        /\ \A i \in 1..Len(p_sent) : p_sent[i].kind # "EndOfFile"
        /\ \A i \in 1..(Len(p_sent) - 1) : p_sent[i].kind # "DropFile"
        /\ m_pc = "returned" => m_ret = "Ok"

\* A transfer was aborted after its first fragment, with a chunk still to
\* send, and has returned.
C12_Witness ==
    /\ status = "Aborted"
    /\ m_pc = "returned"
    /\ Len(FragmentsSent) = 1
    /\ read_bytes < FileLength(m_path)

(***************************************************************************)
(* The transfer under the scheduling of the runtime: a task that can go on *)
(* is polled again.  The peer is taken as what its read half does to the   *)
(* request socket: receiver.next() takes the bytes that have arrived, as   *)
(* the Slave's loop does for as long as its responses fit the response     *)
(* socket.  Nothing makes the controller act.                              *)
(***************************************************************************)
\* The peer's read half takes what the request socket holds.
SocketRead ==
    /\ req_wire # << >>
    /\ req_wire' = << >>
    /\ UNCHANGED << driver, build, conn, resp_wire, resp_stream, p_sent >>
    /\ UNCHANGED << slaveVars, masterVars, codecVars, discVars, recvVars >>

FairNext ==
    \/ \E path \in PathPool, digest_ok \in BOOLEAN : MasterCall(path, digest_ok)
    \/ MasterFlush
    \/ MasterIterate
    \/ MasterReturn
    \/ MasterClose
    \/ \E st \in TaskStatus : CtlSend(st)
    \/ CtlDrop
    \/ SocketRead

Fairness ==
    /\ WF_vars(MasterFlush)
    /\ WF_vars(MasterIterate)
    /\ WF_vars(MasterReturn)
    /\ WF_vars(SocketRead)

FairSpec == Init /\ [][FairNext]_vars /\ Fairness

\* Every control-channel sender is gone and the loop has chunks to send.
ControllerLost == stat_tx = "dropped" /\ ChunksRemain

\* The transfer has stopped with Ok and the last request it sent is kind.
StoppedAfter(kind) ==
    /\ m_pc = "returned"
    /\ m_ret = "Ok"
    /\ p_sent[Len(p_sent)] = [ kind |-> kind, file_id |-> m_file_id ]

DropsSent == Len(SelectSeq(p_sent, LAMBDA r : r.kind = "DropFile"))

\* What the controller of the scenario sends next: Paused, then Aborted.
ScenarioStatus == IF ctl_sent = 0 THEN "Paused" ELSE "Aborted"

\* The caller is back from the aborted do_send_a_file and about to call it
\* again for the same path: the locals of the new call are fresh, the
\* Master keeps its connection.
CallAgain ==
    /\ driver = "do_send_a_file"
    /\ m_pc = "returned"
    /\ conn = "open"
    /\ DropsSent = 1
    /\ p_sent[Len(p_sent)].kind = "DropFile"
    /\ Len(s_resps) = Len(p_sent)
    /\ m_pc' = "idle"
    /\ m_file_id' = 255
    /\ read_bytes' = 0
    /\ fragment_index' = 0
    /\ status' = "Running"
    /\ stat_chan' = << >>
    /\ stat_tx' = "none"
    /\ m_ret' = "pending"
    /\ UNCHANGED << m_path, m_wbuf, ctl_sent, polled_log, ctl_lost, abort_at, m_file, res_chan >>
    /\ UNCHANGED << connVars, slaveVars, codecVars, discVars, recvVars >>

\* The files of the scenario: the ones that take a turn of the loop.
ResendPool == { path \in PathPool : path.kind = "file" /\ path.content # << >> }

ResendInit ==
    /\ Init
    /\ driver = "do_send_a_file"

ResendNext ==
    \/ \E path \in ResendPool : (m_path \in { NoPath, path }) /\ MasterCall(path, TRUE)
    \/ MasterFlush
    \/ MasterIterate
    \/ MasterReturn
    \/ MasterClose
    \/ CallAgain
    \/ CtlSend(ScenarioStatus)
    \/ SlaveRead
    \/ SlaveHandle
    \/ SlaveStop

ResendSpec == ResendInit /\ [][ResendNext]_vars

\* The controller's Paused and then its Aborted have been polled.
PausedThenAborted ==
    /\ Len(polled_log) >= 2
    /\ polled_log[1] = "Paused"
    /\ polled_log[2] = "Aborted"

\* Where the first DropFile stands among the requests sent, 0 if none does.
FirstDrop ==
    IF DropsSent = 0 THEN 0
    ELSE CHOOSE k \in 1..Len(p_sent) :
            /\ p_sent[k].kind = "DropFile"
            /\ \A j \in 1..(k - 1) : p_sent[j].kind # "DropFile"

\* C14: abort scenario. Once a transfer was paused and then aborted with
\* chunks unsent, the sender has sent DropFile for the transfer's file_id
\* and no EndOfFile before it; the receiver gets that DropFile and answers
\* Ok; no file is written up to then; the FileMetadata of the re-send, with
\* the same file_id, is answered Ok and leaves an empty fragment list; and
\* once the receiver has handled the whole re-send every request of it but
\* the last was answered Ok, its EndOfFile passed the digest check on the
\* content of the file and reached File::create, and when the storage took
\* the file (the answer is Ok) the one file written holds that content.
C14_AbortScenario ==
    PausedThenAborted =>
        LET id == FileIdOf(Digest(m_path.content))
            k == FirstDrop
            n == Len(p_sent)
            path == StoragePath(build, FileName(m_path))
        IN
        /\ k >= 2
        /\ p_sent[k] = DropFile(id)
        /\ \A j \in 1..k : p_sent[j].kind # "EndOfFile"
        /\ Len(s_reqs) >= k => (s_reqs[k] = DropFile(id) /\ s_resps[k] = Ok)
        /\ Len(s_reqs) <= k => disk = EmptyMap
        /\ Len(s_reqs) >= k + 1 =>
              /\ s_reqs[k + 1] = FileMetadata(id, FileName(m_path), Digest(m_path.content))
              /\ s_resps[k + 1] = Ok
        /\ Len(s_reqs) = k + 1 =>
              /\ id \in DOMAIN file_pool
              /\ file_pool[id] = << >>
        /\ (n > k /\ p_sent[n].kind = "EndOfFile" /\ Len(s_reqs) = n) =>
              /\ \A j \in (k + 1)..(n - 1) : s_resps[j] = Ok
              /\ s_last.io.create_called
              /\ s_last.io.lookup.file_content = m_path.content
              /\ s_resps[n] \in { Ok, CannotSaveFile(id) }
              /\ s_resps[n] = Ok =>
                    /\ DOMAIN disk = { path }
                    /\ disk[path] = m_path.content

\* The 1478-byte file was paused and aborted after its first fragment, then
\* sent again in full, and the receiver has written it.
C14_Witness ==
    /\ PausedThenAborted
    /\ FirstDrop = 3
    /\ Len(p_sent) = 7
    /\ Len(s_resps) = 7
    /\ s_resps[7] = Ok
    /\ Len(m_path.content) = MAX_FILE_FARGMENT_SIZE + 1
    /\ disk[StoragePath(build, FileName(m_path))] = m_path.content

(***************************************************************************)
(* A whole transfer, as the test of codec.rs runs it: send_a_file against  *)
(* a Slave, in either build profile, nobody touching the control channel.  *)
(***************************************************************************)
TransferInit ==
    /\ driver = "send_a_file"
    /\ build \in { "debug", "release" }
    /\ SlaveStart
    /\ MasterStart
    /\ c_codec = "request"
    /\ CodecStart

TransferNext ==
    \/ \E path \in PathPool, digest_ok \in BOOLEAN : MasterCall(path, digest_ok)
    \/ MasterFlush
    \/ MasterIterate
    \/ MasterReturn
    \/ MasterClose
    \/ SlaveRead
    \/ SlaveHandle
    \/ SlaveStop

TransferSpec == TransferInit /\ [][TransferNext]_vars

\* The number of chunks of a file of len bytes.
ChunkCount(len) == (len + MAX_FILE_FARGMENT_SIZE - 1) \div MAX_FILE_FARGMENT_SIZE

\* The last component of a stored path: what follows its last '/'.
BaseName(path) ==
    LET slashes == { i \in 1..Len(path) : path[i] = 47 }
        last == IF slashes = { } THEN 0
                ELSE CHOOSE i \in slashes : \A j \in slashes : j <= i
    IN SubSeq(path, last + 1, Len(path))

\* The sender has sent a whole transfer, EndOfFile included, and the
\* receiver has handled all of it.
TransferHandled ==
    /\ p_sent # << >>
    /\ p_sent[Len(p_sent)].kind = "EndOfFile"
    /\ Len(s_reqs) = Len(p_sent)

TransferResults == { "Ok", "Io", "NotAFile", "Sha256Digest", "DataTooLarge" }

\* C16: result reporting. A call of send_a_file that has returned has put
\* exactly one value on its result channel, the Ok or the error that
\* do_send_a_file ended with; before that the channel is empty, so no call
\* puts a second one.
C16_ResultReporting ==
    driver = "send_a_file" =>
        /\ m_pc = "returned" => (res_chan = << m_ret >> /\ m_ret \in TransferResults)
        /\ m_pc # "returned" => (res_chan = << >> /\ m_ret = "pending")

\* A call for a directory has returned with NotAFile on its result channel.
C16_Witness ==
    /\ driver = "send_a_file"
    /\ m_pc = "returned"
    /\ m_path.kind = "dir"
    /\ res_chan = << "NotAFile" >>

(***************************************************************************)
(* master.rs: Master::recv_responses, against a peer that writes bytes on  *)
(* the response stream, and a holder of the forwarding channel's receiver. *)
(***************************************************************************)
\* What the peer writes in one write: whole response frames, a frame whose
\* payload is no SlaveResponse, the head and the rest of a frame, and a
\* frame that declares fewer bytes than its own prefix.
RespChunkPool ==
    { Frame("response", Pong),
      Frame("response", Ok),
      Frame("response", FileIdNotFound(1)),
      << 0, 6, 9, 0, 0, 0 >>,
      << 0, 6, 1 >>,
      << 0, 0, 0 >>,
      << 0, 1 >> }

\* (mutant) a gone receiver is reported as an error.
SendFailedResultErr == "err"

\* msg_tx.send(resp).is_err(): break, and the Ok(()) after the loop.
SendFailedResult == "ok"

\* self.receiver.next() at the end of the stream: None when the buffer is
\* empty, Some(Err) when bytes of an incomplete frame are left in it.
StreamEndResult(rbuf) == IF rbuf = << >> THEN "ok" ELSE "err"

\* recv_responses(msg_tx) is called.
RecvCall ==
    /\ driver \in { "recv_responses", "send_a_file", "do_send_a_file" }
    /\ r_pc = "idle"
    /\ ~SendBorrows
    /\ r_pc' = "loop"
    /\ UNCHANGED << r_rbuf, r_fwd, r_rx, r_conn, r_writes >>
    /\ UNCHANGED << connVars, slaveVars, codecVars, discVars >>
    /\ UNCHANGED << m_pc, m_path, m_file_id, m_wbuf, read_bytes, fragment_index, status,
                    stat_chan, stat_tx, ctl_sent, polled_log, ctl_lost, abort_at, m_file, m_ret, res_chan >>

\* self.receiver.next(): the buffer holds no complete frame and the read
\* takes the bytes the response socket holds.
RecvRead ==
    /\ r_pc = "loop"
    /\ Decode("response", r_rbuf).res = "None"
    /\ resp_wire # << >>
    /\ r_rbuf' = r_rbuf \o resp_wire
    /\ resp_wire' = << >>
    /\ UNCHANGED << r_pc, r_fwd, r_rx, r_conn, r_writes >>
    /\ UNCHANGED << driver, build, conn, req_wire, resp_stream, p_sent, slaveVars, codecVars, discVars >>
    /\ UNCHANGED << m_pc, m_path, m_file_id, m_wbuf, read_bytes, fragment_index, status,
                    stat_chan, stat_tx, ctl_sent, polled_log, ctl_lost, abort_at, m_file, m_ret, res_chan >>

\* Some(Ok(resp)): msg_tx.send(resp); the loop breaks when the send fails.
RecvForward ==
    /\ r_pc = "loop"
    /\ LET d == Decode("response", r_rbuf) IN
        /\ d.res = "Some"
        /\ r_rbuf' = d.src
        /\ IF r_rx = "alive"
           THEN /\ r_fwd' = Append(r_fwd, d.item)
                /\ r_pc' = "loop"
           ELSE /\ r_fwd' = r_fwd
                /\ r_pc' = SendFailedResult
    /\ UNCHANGED << r_rx, r_conn, r_writes >>
    /\ UNCHANGED << connVars, slaveVars, codecVars, discVars >>
    /\ UNCHANGED << m_pc, m_path, m_file_id, m_wbuf, read_bytes, fragment_index, status,
                    stat_chan, stat_tx, ctl_sent, polled_log, ctl_lost, abort_at, m_file, m_ret, res_chan >>

\* The loop ends without a response: Some(Err) from decode or from the
\* transport (`resp?`), a panic inside decode, or None at the end of the
\* stream.
RecvStop ==
    /\ r_pc = "loop"
    /\ LET r == Decode("response", r_rbuf).res IN
       \/ /\ r = "Err"
          /\ r_pc' = "err"
       \/ /\ r = "Panic"
          /\ r_pc' = "panic"
       \/ /\ r = "None" /\ resp_wire = << >> /\ r_conn = "closed"
          /\ r_pc' = StreamEndResult(r_rbuf)
       \/ /\ r = "None" /\ resp_wire = << >> /\ r_conn = "reset"
          /\ r_pc' = "err"
    /\ UNCHANGED << r_rbuf, r_fwd, r_rx, r_conn, r_writes >>
    /\ UNCHANGED << connVars, slaveVars, codecVars, discVars >>
    /\ UNCHANGED << m_pc, m_path, m_file_id, m_wbuf, read_bytes, fragment_index, status,
                    stat_chan, stat_tx, ctl_sent, polled_log, ctl_lost, abort_at, m_file, m_ret, res_chan >>

\* The peer writes chunk on the response stream.
RespPeerWrite(chunk) ==
    /\ driver = "recv_responses"
    /\ r_conn = "open"
    /\ r_writes < MaxRespWrites
    /\ r_writes' = r_writes + 1
    /\ resp_wire' = resp_wire \o chunk
    /\ resp_stream' = resp_stream \o chunk
    /\ UNCHANGED << r_pc, r_rbuf, r_fwd, r_rx, r_conn >>
    /\ UNCHANGED << driver, build, conn, req_wire, p_sent, slaveVars, codecVars, discVars >>
    /\ UNCHANGED << m_pc, m_path, m_file_id, m_wbuf, read_bytes, fragment_index, status,
                    stat_chan, stat_tx, ctl_sent, polled_log, ctl_lost, abort_at, m_file, m_ret, res_chan >>

\* The peer shuts its write half down (how == "closed"), or the connection
\* is reset and what was in flight is lost (how == "reset").
RespPeerEnd(how) ==
    /\ driver = "recv_responses"
    /\ r_conn = "open"
    /\ r_conn' = how
    /\ resp_wire' = IF how = "reset" THEN << >> ELSE resp_wire
    /\ UNCHANGED << r_pc, r_rbuf, r_fwd, r_rx, r_writes >>
    /\ UNCHANGED << driver, build, conn, req_wire, resp_stream, p_sent, slaveVars, codecVars, discVars >>
    /\ UNCHANGED << m_pc, m_path, m_file_id, m_wbuf, read_bytes, fragment_index, status,
                    stat_chan, stat_tx, ctl_sent, polled_log, ctl_lost, abort_at, m_file, m_ret, res_chan >>

\* The holder of the forwarding channel's receiver drops it.
RxDrop ==
    /\ driver = "recv_responses"
    /\ r_rx = "alive"
    /\ r_rx' = "dropped"
    /\ UNCHANGED << r_pc, r_rbuf, r_fwd, r_conn, r_writes >>
    /\ UNCHANGED << connVars, slaveVars, codecVars, discVars >>
    /\ UNCHANGED << m_pc, m_path, m_file_id, m_wbuf, read_bytes, fragment_index, status,
                    stat_chan, stat_tx, ctl_sent, polled_log, ctl_lost, abort_at, m_file, m_ret, res_chan >>

RecvInit ==
    /\ driver = "recv_responses"
    /\ build = "debug"
    /\ SlaveStart
    /\ MasterStart
    /\ c_codec = "response"
    /\ CodecStart

RecvNext ==
    \/ RecvCall
    \/ RecvRead
    \/ RecvForward
    \/ RecvStop
    \/ \E chunk \in RespChunkPool : RespPeerWrite(chunk)
    \/ \E how \in { "closed", "reset" } : RespPeerEnd(how)
    \/ RxDrop

RecvSpec == RecvInit /\ [][RecvNext]_vars

\* What a stream of bytes holds for a reader that decodes frame after
\* frame: the messages up to the first thing that is no message, and what
\* that is ("clean": nothing left, "partial": an incomplete frame, "err" or
\* "panic": a frame decode fails or panics on).
RECURSIVE DecodeStream(_, _)
DecodeStream(codec, src) ==
    LET d == Decode(codec, src) IN
    IF d.res = "Some"
    THEN LET r == DecodeStream(codec, d.src) IN
         [ items |-> << d.item >> \o r.items, end |-> r.end ]
    ELSE [ items |-> << >>,
           end |-> CASE d.res = "Err" -> "err"
                     [] d.res = "Panic" -> "panic"
                     [] OTHER -> IF src = << >> THEN "clean" ELSE "partial" ]

\* What C17 says of one state of the loop.
ResponseLoopState ==
    LET all == DecodeStream("response", resp_stream) IN
          /\ IsPrefix(r_fwd, all.items)
          /\ (r_pc \in { "ok", "err" } /\ r_rx = "alive" /\ r_conn # "reset") =>
                r_fwd = all.items
          /\ r_pc = "err" =>
                \/ r_conn = "reset"
                \/ all.end = "err"
                \/ all.end = "partial" /\ r_conn = "closed"
          /\ r_pc = "ok" =>
                \/ r_rx = "dropped"
                \/ r_conn = "closed" /\ all.end = "clean"
          /\ r_pc = "panic" => all.end = "panic"

\* C17: response loop. What recv_responses has forwarded is always a
\* prefix, in order, of the responses the bytes written by the peer decode
\* to, and while the receiver of the channel is alive and the connection is
\* not reset it has forwarded all of them by the time it returns.  It
\* returns an error only on a decode or transport error: a frame that does
\* not decode, a stream that ends inside a frame, or a reset connection.
\* When it has returned Ok, either the peer closed the stream after a whole
\* number of frames, or the receiver of the channel is gone.  After it has
\* returned, or panicked, it forwards nothing.
C17_ResponseLoop ==
    /\ []ResponseLoopState
    /\ [][ (r_pc # "idle" /\ r_pc # "loop") => (r_pc' = r_pc /\ r_fwd' = r_fwd) ]_vars

\* Two responses were forwarded in the order written, the receiver of the
\* channel was dropped, and the loop ended with Ok on the third response.
C17_Witness ==
    /\ r_fwd = << Pong, FileIdNotFound(1) >>
    /\ r_rx = "dropped"
    /\ r_pc = "ok"
    /\ r_conn = "open"
    /\ Len(DecodeStream("response", resp_stream).items) = 3

(***************************************************************************)
(* Claims about the receiver's handling of DropFile and of failures.       *)
(***************************************************************************)
\* Request j was handled after a DropFile for its file_id, with no
\* FileMetadata for that file_id in between.
AfterDrop(j) ==
    \E i \in 1..(j - 1) :
        /\ s_reqs[i].kind = "DropFile"
        /\ s_reqs[i].file_id = s_reqs[j].file_id
        /\ \A k \in (i + 1)..(j - 1) :
              ~(s_reqs[k].kind = "FileMetadata" /\ s_reqs[k].file_id = s_reqs[j].file_id)

\* C18: DropFile is idempotent and unconditional. Every DropFile handled is
\* answered Ok; a FileFragment or EndOfFile handled after a DropFile for its
\* file_id, with no FileMetadata for it in between, is answered
\* FileIdNotFound, and handling it leaves the storage untouched.
C18_DropFile ==
    \A j \in 1..Len(s_reqs) :
        /\ s_reqs[j].kind = "DropFile" => s_resps[j] = Ok
        /\ (s_reqs[j].kind \in { "FileFragment", "EndOfFile" } /\ AfterDrop(j)) =>
              /\ s_resps[j] = FileIdNotFound(s_reqs[j].file_id)
              /\ j = Len(s_reqs) =>
                    /\ disk = s_last.disk_before
                    /\ ~s_last.io.create_called
                    /\ ~s_last.io.write_called

\* A file_id was opened and dropped, dropped once more, and the EndOfFile
\* that followed was answered FileIdNotFound.
C18_Witness ==
    /\ Len(s_reqs) = 4
    /\ s_reqs[1].kind = "FileMetadata"
    /\ s_reqs[2] = DropFile(1)
    /\ s_reqs[3] = DropFile(1)
    /\ s_reqs[4] = EndOfFile(1)
    /\ s_resps = << Ok, Ok, Ok, FileIdNotFound(1) >>

\* The receiver holds neither metadata nor a fragment list for file_id.
Absent(file_id) == file_id \notin DOMAIN file_metadata /\ file_id \notin DOMAIN file_pool

\* The receiver holds both.
Open(file_id) == file_id \in DOMAIN file_metadata /\ file_id \in DOMAIN file_pool

\* C19: per-file_id state machine. In every state each file_id is Absent or
\* Open, never with metadata and no fragment list or the reverse; the
\* file_id of the request handled last is Open after FileMetadata and after
\* an accepted FileFragment, and Absent after EndOfFile and after DropFile.
C19_StateMachine ==
    /\ \A file_id \in DOMAIN file_metadata \cup DOMAIN file_pool : Open(file_id)
    /\ s_last.called =>
          LET request == s_last.request IN
          /\ request.kind = "FileMetadata" => Open(request.file_id)
          /\ (request.kind = "FileFragment" /\ s_last.resp = Ok) => Open(request.file_id)
          /\ request.kind \in { "EndOfFile", "DropFile" } => Absent(request.file_id)

(***************************************************************************)
(* The receiver against a peer that provokes failures: requests that are   *)
(* answered with a failure, bytes that are no frame of a request, a        *)
(* shutdown, and a reset of the connection.                                *)
(***************************************************************************)
FaultPool ==
    { Ping,
      FileMetadata(1, Name_a, Digest(<< >>)),
      FileMetadata(1, Name_a, Digest(<< 1, 2 >>)),
      EndOfFile(1) }

\* A frame whose payload is no MasterRequest, and a frame that declares
\* fewer bytes than its own prefix.
RawPool == { << 0, 6, 9, 0, 0, 0 >>, << 0, 1 >> }

\* The peer writes bytes of its own making.
PeerWriteRaw(bytes) ==
    /\ driver = "peer"
    /\ conn = "open"
    /\ Len(p_sent) < MaxRequests
    /\ Len(req_wire) + Len(bytes) <= ReqCapacity
    /\ req_wire' = req_wire \o bytes
    /\ p_sent' = Append(p_sent, [ kind |-> "Raw", bytes |-> bytes ])
    /\ UNCHANGED << driver, build, conn, resp_wire, resp_stream >>
    /\ UNCHANGED << slaveVars, codecVars, discVars, recvVars, masterVars >>

\* The connection is reset: what was in flight is lost, and the receiver's
\* next read or write on it fails.
ConnReset ==
    /\ driver = "peer"
    /\ conn = "open"
    /\ conn' = "reset"
    /\ req_wire' = << >>
    /\ resp_wire' = << >>
    /\ UNCHANGED << driver, build, resp_stream, p_sent >>
    /\ UNCHANGED << slaveVars, codecVars, discVars, recvVars, masterVars >>

FaultNext ==
    \/ \E request \in FaultPool : PeerSend(request)
    \/ \E bytes \in RawPool : PeerWriteRaw(bytes)
    \/ PeerClose
    \/ ConnReset
    \/ PeerDrain
    \/ SlaveHandle
    \/ SlaveRead
    \/ SlaveStop
    \/ SlaveFlush

FaultSpec == SlaveInit /\ [][FaultNext]_vars

\* C20: protocol-level failures are non-fatal. When the loop has ended, it
\* ended for one of: the connection closed (Ok on a frame boundary, an
\* error inside a frame), a frame that decode rejects or panics on, or a
\* reset connection, on which its read or the write of its response failed;
\* a response FileIdNotFound, ChecksumNotMatched or CannotSaveFile is none
\* of these, and the requests handled after one are answered as ever: Ping
\* with Pong, FileMetadata with Ok, EndOfFile for a file_id not open with
\* FileIdNotFound.
C20_NonFatal ==
    LET r == Decode("request", s_rbuf).res IN
    /\ s_pc = "ok" => (conn = "closed" /\ s_rbuf = << >>)
    /\ s_pc = "err" =>
          \/ r = "Err"
          \/ conn = "closed" /\ r = "None" /\ s_rbuf # << >>
          \/ conn = "reset"
    /\ s_pc = "panic" => r = "Panic"
    /\ \A j \in 2..Len(s_reqs) :
          s_resps[j - 1].kind \in FailureKinds =>
             /\ s_reqs[j].kind = "Ping" => s_resps[j] = Pong
             /\ s_reqs[j].kind = "FileMetadata" => s_resps[j] = Ok
             /\ s_reqs[j].kind = "EndOfFile" => s_resps[j] = FileIdNotFound(s_reqs[j].file_id)

\* The storage refused a file, the next EndOfFile found no file_id, and the
\* Ping after the two failures was answered; the loop is at its read.
C20_Witness ==
    /\ s_resps = << Ok, CannotSaveFile(1), FileIdNotFound(1), Pong >>
    /\ s_pc = "recv"
    /\ conn = "open"

(***************************************************************************)
(* C21: frames whose payload is no message.                                *)
(***************************************************************************)
\* The buffer holds at least as many bytes as its first two bytes declare,
\* and the bytes of that frame after the prefix deserialize to no message.
MalformedFrame(codec, src) ==
    /\ Len(src) >= 2
    /\ LET total_length == u8_array_to_u16(<< src[1], src[2] >>) IN
        /\ Len(src) >= total_length
        /\ ~Deserialize(codec, SubSeq(src, 3, total_length)).ok

\* C21: malformed frames are fatal, not skipped. Whenever the receiver's
\* buffer holds a complete frame whose payload deserializes to no request,
\* decode returns a decode error; the loop then stops with the error, taking
\* no request in between, and once stopped it handles no request and feeds
\* no response.
C21_MalformedFatal ==
    /\ [](MalformedFrame("request", s_rbuf) => Decode("request", s_rbuf).res = "Err")
    /\ [][ (MalformedFrame("request", s_rbuf) /\ s_pc = "recv" /\ s_pc' # s_pc) =>
              (s_pc' = "err" /\ s_reqs' = s_reqs /\ s_resps' = s_resps) ]_vars
    /\ [][ s_pc = "err" => (s_pc' = "err" /\ s_reqs' = s_reqs /\ s_resps' = s_resps) ]_vars

(***************************************************************************)
(* C22: the length prefix of an encoded frame.                             *)
(***************************************************************************)
\* The bytes the last encode call appended to the output.
Appended == Drop(c_enc.after, Len(c_enc.before))

\* C22: frame size. Every frame an encoder appends starts with a 2-byte
\* big-endian total_length that is 2 plus the payload length, is the number
\* of bytes appended, and lies between 2 and 1500; 2 plus the payload length
\* fits 16 bits, so the stored value is not a wrapped one.
C22_FrameSize ==
    (c_enc.called /\ c_enc.res = "Ok") =>
        LET data == Serialize(c_codec, c_enc.item)
            total_length == Appended[1] * 256 + Appended[2]
        IN
        /\ IsPrefix(c_enc.before, c_enc.after)
        /\ Len(Appended) >= 2
        /\ Appended[1] \in 0..255 /\ Appended[2] \in 0..255
        /\ total_length = 2 + Len(data)
        /\ total_length = Len(Appended)
        /\ 2 <= total_length /\ total_length <= 1500
        /\ 2 + Len(data) < 65536

\* The largest frame, 1500 bytes, appended behind an earlier frame.
C22_Witness ==
    /\ c_enc.called /\ c_enc.res = "Ok"
    /\ c_enc.before # << >>
    /\ Len(Serialize(c_codec, c_enc.item)) = MAX_CONTENT_SIZE
    /\ Len(Appended) = 1500
    /\ << Appended[1], Appended[2] >> = << 5, 220 >>

(***************************************************************************)
(* A Master used for both of its jobs on one connection: sending a file    *)
(* and reading the responses, with a Slave on the other end.               *)
(***************************************************************************)
\* The files of the run: the regular files of a single chunk at most, whose
\* requests the socket takes whole, as it takes the Slave's responses.
DuplexPool == { path \in PathPool : path.kind = "file" /\ Len(path.content) <= 3 }

DuplexNext ==
    \/ \E path \in DuplexPool : MasterCall(path, TRUE)
    \/ MasterIterate
    \/ MasterReturn
    \/ \E st \in TaskStatus : CtlSend(st)
    \/ SlaveRead
    \/ SlaveHandle
    \/ RecvCall
    \/ RecvRead
    \/ RecvForward

DuplexSpec == Init /\ [][DuplexNext]_vars

\* A transfer is in progress, its status Running or Paused.
TransferInProgress == m_pc = "loop"

\* C23: responses are drained during a transfer. While a transfer is in
\* progress or paused and a response waits in the Master's socket, the
\* response-reading loop can take a step (be called, read, or forward): it
\* does not have to wait for the send loop to finish.
C23_ResponsesDrained ==
    (TransferInProgress /\ resp_wire # << >>) =>
        ENABLED (RecvCall \/ RecvRead \/ RecvForward)

(***************************************************************************)
(* broadcast.rs: discovery. A Listener's recv_once on a socket that        *)
(* receives the datagrams of announcing Senders and of any other host.     *)
(***************************************************************************)
MAGIC == << 11, 45, 14, 19, 19, 8, 10 >>

\* let mut buffer = [0; 1024]
BUFFER_SIZE == 1024

\* Datagrams that reach the Listener's socket during one recv_once call.
MaxDatagrams == 3

\* Sender::new(service_port, _): the payload send_once broadcasts.
Payload(service_port) == MAGIC \o u16_to_u8_array(service_port)

\* socket.recv_from(&mut buffer): the datagram's bytes go to the front of
\* the buffer, as many as fit; the rest of the buffer stays as it was.
RecvFrom(buffer, bytes) ==
    LET n == Min(Len(bytes), Len(buffer)) IN
    SubSeq(bytes, 1, n) \o SubSeq(buffer, n + 1, Len(buffer))

\* if buffer[0..7] == MAGIC
IsAnnouncement(buffer) == SubSeq(buffer, 1, 7) = MAGIC

\* SocketAddr::new(source.ip(), u8_array_to_u16([buffer[7], buffer[8]]))
AnnouncedAddr(source, buffer) ==
    [ ip |-> source, port |-> u8_array_to_u16(<< buffer[8], buffer[9] >>) ]

\* The datagrams of the run: the announcements of two Senders, a datagram
\* of nine bytes that starts with no magic marker, one that is one byte
\* long, and the marker alone, with and without half a port.
DatagramPool ==
    { [ source |-> "10.0.0.1", bytes |-> Payload(4660) ],
      [ source |-> "10.0.0.2", bytes |-> Payload(80) ],
      [ source |-> "10.0.0.3", bytes |-> << 1 >> \o Tail(Payload(8080)) ],
      [ source |-> "10.0.0.4", bytes |-> << 11 >> ],
      [ source |-> "10.0.0.5", bytes |-> MAGIC ],
      [ source |-> "10.0.0.6", bytes |-> MAGIC \o << 31 >> ] }

\* A datagram arrives at the Listener's port.
DatagramArrive(datagram) ==
    /\ driver = "listener"
    /\ d_pc \in { "idle", "recv" }
    /\ Len(d_seen) + Len(d_socket) < MaxDatagrams
    /\ d_socket' = Append(d_socket, datagram)
    /\ UNCHANGED << d_pc, d_buffer, d_seen, d_ret >>
    /\ UNCHANGED << connVars, slaveVars, masterVars, recvVars, codecVars >>

\* recv_once is called: a zeroed buffer.
RecvOnceCall ==
    /\ driver = "listener"
    /\ d_pc = "idle"
    /\ d_pc' = "recv"
    /\ d_buffer' = [ i \in 1..BUFFER_SIZE |-> 0 ]
    /\ UNCHANGED << d_socket, d_seen, d_ret >>
    /\ UNCHANGED << connVars, slaveVars, masterVars, recvVars, codecVars >>

\* One turn of the loop: recv_from returns a datagram; recv_once returns its
\* sender's address when the buffer starts with the marker and loops on
\* otherwise.
RecvOnceIterate ==
    /\ d_pc = "recv"
    /\ d_socket # << >>
    /\ LET datagram == Head(d_socket)
           buffer == RecvFrom(d_buffer, datagram.bytes)
       IN
       /\ d_socket' = Tail(d_socket)
       /\ d_seen' = Append(d_seen, datagram)
       /\ d_buffer' = buffer
       /\ IF IsAnnouncement(buffer)
          THEN /\ d_pc' = "returned"
               /\ d_ret' = AnnouncedAddr(datagram.source, buffer)
          ELSE /\ UNCHANGED << d_pc, d_ret >>
    /\ UNCHANGED << connVars, slaveVars, masterVars, recvVars, codecVars >>

\* recv_from fails (the read timeout of 30 s passes with no datagram):
\* recv_once returns the error.
RecvOnceTimeout ==
    /\ d_pc = "recv"
    /\ d_socket = << >>
    /\ d_pc' = "err"
    /\ UNCHANGED << d_buffer, d_socket, d_seen, d_ret >>
    /\ UNCHANGED << connVars, slaveVars, masterVars, recvVars, codecVars >>

DiscoveryInit ==
    /\ driver = "listener"
    /\ build = "debug"
    /\ SlaveStart
    /\ MasterStart
    /\ c_codec = "request"
    /\ CodecStart

DiscoveryNext ==
    \/ \E datagram \in DatagramPool : DatagramArrive(datagram)
    \/ RecvOnceCall
    \/ RecvOnceIterate
    \/ RecvOnceTimeout

DiscoverySpec == DiscoveryInit /\ [][DiscoveryNext]_vars

\* The first 7 bytes of the datagram are the magic marker.
MagicPrefixed(bytes) == Len(bytes) >= 7 /\ SubSeq(bytes, 1, 7) = MAGIC

\* C24: discovery. recv_once returns an address only for a datagram whose
\* first 7 bytes are the magic marker, every datagram received before it in
\* the call being one without the marker, and the port of the address is the
\* service port that same datagram carries in its bytes 8 and 9.
C24_Discovery ==
    /\ d_pc = "returned" =>
          LET datagram == d_seen[Len(d_seen)] IN
          /\ MagicPrefixed(datagram.bytes)
          /\ Len(datagram.bytes) >= 9
          /\ d_ret = [ ip |-> datagram.source,
                       port |-> datagram.bytes[8] * 256 + datagram.bytes[9] ]
          /\ \A i \in 1..(Len(d_seen) - 1) : ~MagicPrefixed(d_seen[i].bytes)
    /\ (d_pc = "recv" /\ d_seen # << >>) => ~MagicPrefixed(d_seen[Len(d_seen)].bytes)

(***************************************************************************)
(* The receiver against a peer that opens one file_id over and over.       *)
(***************************************************************************)
Name_b == << 98 >>

ReinitPool ==
    { FileMetadata(1, Name_a, Digest(<< 1 >>)),
      FileMetadata(1, Name_b, Digest(<< >>)),
      FileFragment(1, 0, << 1 >>),
      EndOfFile(1),
      DropFile(1) }

ReinitNext ==
    \/ \E request \in ReinitPool : PeerSend(request)
    \/ PeerClose
    \/ PeerDrain
    \/ SlaveHandle
    \/ SlaveRead
    \/ SlaveStop
    \/ SlaveFlush

ReinitSpec == SlaveInit /\ [][ReinitNext]_vars

\* Whether request j is FileMetadata for file_id.
IsMetadataFor(j, file_id) ==
    s_reqs[j].kind = "FileMetadata" /\ s_reqs[j].file_id = file_id

\* The (index, data) pairs of the FileFragment requests for file_id that were
\* handled after request k and before request n and answered Ok, in order.
AcceptedBetween(k, n, file_id) ==
    LET positions == SelectSeq([i \in 1..(n - 1) |-> i],
                        LAMBDA i : /\ i > k
                                   /\ s_reqs[i].kind = "FileFragment"
                                   /\ s_reqs[i].file_id = file_id
                                   /\ s_resps[i] = Ok)
    IN [ j \in 1..Len(positions) |->
            << s_reqs[positions[j]].index, s_reqs[positions[j]].data >> ]

\* C25: FileMetadata re-initialises. Every FileMetadata handled is answered
\* Ok; right after one is handled, the name and digest recorded for its
\* file_id are those of the message and the fragment list is empty; and an
\* EndOfFile that finds its file_id reassembles, under the name and digest
\* of the last FileMetadata for it, the fragments accepted since that
\* FileMetadata and none accepted before.
C25_Reinitialise ==
    /\ \A j \in 1..Len(s_reqs) : s_reqs[j].kind = "FileMetadata" => s_resps[j] = Ok
    /\ (s_last.called /\ s_last.request.kind = "FileMetadata") =>
          LET request == s_last.request IN
          /\ request.file_id \in DOMAIN file_pool
          /\ request.file_id \in DOMAIN file_metadata
          /\ file_pool[request.file_id] = << >>
          /\ file_metadata[request.file_id] =
                [ file_name |-> request.file_name, sha256 |-> request.sha256 ]
    /\ (s_last.called /\ s_last.request.kind = "EndOfFile" /\ s_last.io.lookup.found) =>
          LET n == Len(s_reqs)
              file_id == s_last.request.file_id
          IN
          \E k \in 1..(n - 1) :
              /\ IsMetadataFor(k, file_id)
              /\ \A i \in (k + 1)..(n - 1) : ~IsMetadataFor(i, file_id)
              /\ s_last.io.lookup.file_name = s_reqs[k].file_name
              /\ s_last.io.lookup.sha256 = s_reqs[k].sha256
              /\ s_last.io.lookup.arrived = AcceptedBetween(k, n, file_id)
              /\ s_last.io.lookup.file_content =
                    ConcatData(SortFragments(AcceptedBetween(k, n, file_id)))

\* A fragment was accepted, the file_id was opened again under another name
\* and the digest of the empty file, and the EndOfFile stored an empty file.
C25_Witness ==
    /\ s_reqs = << FileMetadata(1, Name_a, Digest(<< 1 >>)), FileFragment(1, 0, << 1 >>),
                   FileMetadata(1, Name_b, Digest(<< >>)), EndOfFile(1) >>
    /\ s_resps = << Ok, Ok, Ok, Ok >>
    /\ s_last.io.write_called
    /\ s_last.io.written = << >>
    /\ disk = MapInsert(EmptyMap, StoragePath(build, Name_b), << >>)

\* Request j comes after an EndOfFile for its file_id, with no FileMetadata
\* for that file_id in between.
AfterEndOfFile(j) ==
    \E i \in 1..(j - 1) :
        /\ s_reqs[i].kind = "EndOfFile"
        /\ s_reqs[i].file_id = s_reqs[j].file_id
        /\ \A k \in (i + 1)..(j - 1) : ~IsMetadataFor(k, s_reqs[j].file_id)

\* C26: EndOfFile always consumes the transfer. Right after an EndOfFile is
\* handled, whatever its response, neither map holds its file_id; a
\* FileFragment or EndOfFile handled after it, with no FileMetadata for the
\* file_id in between, is answered FileIdNotFound, and handling it creates
\* and writes no file.
C26_EndOfFileConsumes ==
    /\ (s_last.called /\ s_last.request.kind = "EndOfFile") =>
          /\ s_last.resp \in { Ok, ChecksumNotMatched(s_last.request.file_id),
                               CannotSaveFile(s_last.request.file_id),
                               FileIdNotFound(s_last.request.file_id) }
          /\ Absent(s_last.request.file_id)
    /\ \A j \in 1..Len(s_reqs) :
          (s_reqs[j].kind \in { "FileFragment", "EndOfFile" } /\ AfterEndOfFile(j)) =>
              /\ s_resps[j] = FileIdNotFound(s_reqs[j].file_id)
              /\ j = Len(s_reqs) =>
                    /\ disk = s_last.disk_before
                    /\ ~s_last.io.create_called
                    /\ ~s_last.io.write_called

\* The file was stored by the first EndOfFile; the second EndOfFile and the
\* fragment after it found no file_id, and the stored file is as it was.
C26_Witness ==
    /\ s_reqs = << FileMetadata(1, Name_b, Digest(<< >>)), EndOfFile(1), EndOfFile(1),
                   FileFragment(1, 0, << 1 >>) >>
    /\ s_resps = << Ok, Ok, FileIdNotFound(1), FileIdNotFound(1) >>
    /\ disk = MapInsert(EmptyMap, StoragePath(build, Name_b), << >>)

(***************************************************************************)
(* C27: how long an abort takes.                                           *)
(***************************************************************************)
\* The FileFragment requests sent since Aborted was put on the channel.
FragmentsSinceAbort == FragmentCount(p_sent) - abort_at.fragments

\* The Running messages that were queued ahead of that Aborted.
RunningAhead == Len(SelectSeq(abort_at.ahead, LAMBDA st : st = "Running"))

\* The last request sent is of this kind.
LastSent(kind) == p_sent # << >> /\ p_sent[Len(p_sent)].kind = kind

\* The files of the run: the regular files that take a turn of the loop.
AbortRunPool == { path \in PathPool : path.kind = "file" /\ path.content # << >> }

AbortRunInit ==
    /\ Init
    /\ driver = "do_send_a_file"

AbortRunNext ==
    \/ \E path \in AbortRunPool : MasterCall(path, TRUE)
    \/ MasterFlush
    \/ MasterIterate
    \/ MasterReturn
    \/ \E st \in TaskStatus : CtlSendUpTo(st, MaxAbortCtl)
    \/ SocketRead

AbortRunSpec == AbortRunInit /\ [][AbortRunNext]_vars /\ Fairness

ShrinkPool == { 0, 2, MAX_FILE_FARGMENT_SIZE }

\* Another process truncates the file to n bytes after do_send_a_file has
\* taken its length.
FileShrink(n) ==
    /\ m_pc = "loop"
    /\ m_file = m_path.content
    /\ n < Len(m_file)
    /\ m_file' = SubSeq(m_file, 1, n)
    /\ UNCHANGED << m_pc, m_path, m_file_id, m_wbuf, read_bytes, fragment_index, status,
                    stat_chan, stat_tx, ctl_sent, polled_log, ctl_lost, abort_at, m_ret,
                    res_chan >>
    /\ UNCHANGED << connVars, slaveVars, codecVars, discVars, recvVars >>

ShortReadNext ==
    \/ \E path \in AbortRunPool : MasterCall(path, TRUE)
    \/ MasterFlush
    \/ MasterIterate
    \/ MasterReturn
    \/ \E st \in TaskStatus : CtlSend(st)
    \/ \E n \in ShrinkPool : FileShrink(n)
    \/ SocketRead

ShortReadSpec == Init /\ [][ShortReadNext]_vars /\ Fairness

\* The next read of the loop returns zero bytes although the declared
\* length is not consumed.
ZeroReadAhead ==
    /\ m_pc = "loop"
    /\ read_bytes < FileLength(m_path)
    /\ ReadSize(OpenedFile, read_bytes) = 0

\* The loop was left by a read of zero bytes.
EndedShort ==
    /\ read_bytes < FileLength(m_path)
    /\ LastSent("EndOfFile")

\* C28: short read. No FileFragment sent is empty; the turn of the loop that
\* reads zero bytes before the declared length is consumed sends EndOfFile
\* and nothing else, leaving read_bytes and fragment_index as they were; and
\* a transfer that left its loop this way stops with Ok after EndOfFile.
C28_ShortRead ==
    /\ [](\A i \in 1..Len(p_sent) :
            p_sent[i].kind = "FileFragment" => p_sent[i].data # << >>)
    /\ [][ (ZeroReadAhead /\ p_sent' # p_sent) =>
              /\ p_sent' \in { Append(p_sent, EndOfFile(m_file_id)),
                               Append(p_sent, DropFile(m_file_id)) }
              /\ p_sent' = Append(p_sent, DropFile(m_file_id)) =>
                    (TryRecv(stat_chan, status) = "Aborted" \/ Disconnected(stat_chan, stat_tx))
              /\ read_bytes' = read_bytes
              /\ fragment_index' = fragment_index ]_vars
    /\ [](EndedShort => m_pc \in { "eof", "returned" })
    /\ [](EndedShort /\ m_pc = "returned" => m_ret = "Ok")
    /\ EndedShort ~> (StoppedAfter("EndOfFile") /\ EndedShort)

\* The 1478-byte file was cut to 1477 bytes after its length was taken: one
\* fragment went out, the second read returned nothing, and the transfer
\* has stopped with Ok after EndOfFile.
C28_Witness ==
    /\ Len(m_path.content) = MAX_FILE_FARGMENT_SIZE + 1
    /\ Len(m_file) = MAX_FILE_FARGMENT_SIZE
    /\ read_bytes = MAX_FILE_FARGMENT_SIZE
    /\ FragmentCount(p_sent) = 1
    /\ StoppedAfter("EndOfFile")

(***************************************************************************)
(* C29: the file_id of the requests of one call.                           *)
(***************************************************************************)
FileIdNext ==
    \/ \E path \in PathPool, digest_ok \in BOOLEAN : MasterCall(path, digest_ok)
    \/ MasterFlush
    \/ MasterIterate
    \/ MasterReturn
    \/ \E st \in TaskStatus : CtlSend(st)
    \/ CtlDrop
    \/ \E n \in ShrinkPool : FileShrink(n)
    \/ SocketRead

FileIdSpec == Init /\ [][FileIdNext]_vars

\* The byte whose two lower-case hex characters open the digest.
FirstByte(sha256) == CHOOSE b \in 0..255 : HexByte(b) = SubSeq(sha256, 1, 2)

\* C29: one file_id per transfer. The requests one call has sent open with
\* the FileMetadata, which carries the digest of the file; the FileMetadata,
\* every FileFragment and the EndOfFile or DropFile carry one file_id, the
\* value of the first byte of that digest.
C29_OneFileId ==
    p_sent # << >> =>
        /\ p_sent[1].kind = "FileMetadata"
        /\ p_sent[1].sha256 = Digest(m_path.content)
        /\ \A i \in 1..Len(p_sent) :
              /\ p_sent[i].file_id = FirstByte(p_sent[1].sha256)
              /\ i > 1 => p_sent[i].kind \in { "FileFragment", "EndOfFile", "DropFile" }

\* A call has sent FileMetadata, two fragments and EndOfFile, all under a
\* file_id that is neither 0 nor the fallback 255.
C29_Witness ==
    /\ m_pc = "returned"
    /\ FragmentCount(p_sent) = 2
    /\ LastSent("EndOfFile")
    /\ p_sent[1].file_id \notin { 0, 255 }
    /\ p_sent[1].file_id = FirstByte(p_sent[1].sha256)
    /\ p_sent[1].sha256[3] # p_sent[1].sha256[1]

(***************************************************************************)
(* C30: how recv_request_thread ends.                                      *)
(***************************************************************************)
\* recv_request_thread is over.
LoopEnded == s_pc \notin { "recv", "respond" }

\* receiver.next() meets a frame it cannot decode: decode returns Err, or
\* the frame is complete and its payload is no request.
DecodeFails ==
    /\ ReadyToReceive
    /\ \/ Decode("request", s_rbuf).res = "Err"
       \/ MalformedFrame("request", s_rbuf)

\* The connection has closed on a frame boundary with nothing unread.
ClosedClean ==
    /\ ReadyToReceive
    /\ conn = "closed"
    /\ req_wire = << >>
    /\ s_rbuf = << >>

\* C30: receiver loop termination. recv_request_thread returns Ok only when
\* the connection has closed with nothing left unread, and its step from
\* that state is the return of Ok; its step from a frame that does not
\* decode is the return of an error, with no request taken in between, and
\* so is its step on a connection whose write fails; once the loop is over
\* no request is handled and no response is fed or written.
C30_LoopTermination ==
    /\ [](s_pc = "ok" => (conn = "closed" /\ req_wire = << >> /\ s_rbuf = << >>))
    /\ [][ (ClosedClean /\ s_pc' # s_pc) => s_pc' = "ok" ]_vars
    /\ [][ (DecodeFails /\ s_pc' # s_pc) =>
              (s_pc' = "err" /\ s_reqs' = s_reqs /\ s_resps' = s_resps) ]_vars
    /\ [][ (~LoopEnded /\ conn = "reset" /\ ~DecodeFails /\ << s_pc, s_resps >>' # << s_pc, s_resps >>)
              => (s_pc' = "err" /\ resp_stream' = resp_stream) ]_vars
    /\ [][ LoopEnded => (s_pc' = s_pc /\ s_reqs' = s_reqs /\ s_resps' = s_resps
                         /\ s_wbuf' = s_wbuf /\ resp_stream' = resp_stream) ]_vars

(***************************************************************************)
(* C31: two transfers open on one connection.                              *)
(***************************************************************************)
IsolationPool ==
    { Ping,
      FileMetadata(1, Name_a, Digest(<< >>)),
      FileMetadata(2, Name_b, Digest(<< 2 >>)),
      FileFragment(2, 0, << 2 >>),
      EndOfFile(1),
      DropFile(1) }

IsolationNext ==
    \/ \E request \in IsolationPool : PeerSend(request)
    \/ PeerClose
    \/ PeerDrain
    \/ SlaveHandle
    \/ SlaveRead
    \/ SlaveStop
    \/ SlaveFlush

IsolationSpec == SlaveInit /\ [][IsolationNext]_vars

\* The entries of a map under every key that the request handled last does
\* not name are the same before and after.
OthersKept(before, after) ==
    \A id \in (DOMAIN before) \cup (DOMAIN after) :
        (s_last.request.kind = "Ping" \/ id # s_last.request.file_id) =>
            /\ id \in DOMAIN before
            /\ id \in DOMAIN after
            /\ after[id] = before[id]

\* C31: isolation between transfers. Handling a request leaves the recorded
\* metadata and the fragment list of every file_id the request does not
\* name as they were; Ping is answered Pong and changes neither map nor the
\* storage; a FileFragment answered FileIdNotFound changes none of them
\* either.
C31_Isolation ==
    s_last.called =>
        /\ OthersKept(s_last.pool_before, file_pool)
        /\ OthersKept(s_last.meta_before, file_metadata)
        /\ s_last.request.kind = "Ping" =>
              /\ s_last.resp = Pong
              /\ file_pool = s_last.pool_before
              /\ file_metadata = s_last.meta_before
              /\ disk = s_last.disk_before
        /\ (s_last.request.kind = "FileFragment"
               /\ s_last.resp = FileIdNotFound(s_last.request.file_id)) =>
              /\ file_pool = s_last.pool_before
              /\ file_metadata = s_last.meta_before
              /\ disk = s_last.disk_before

\* Transfer 2 holds a fragment while the EndOfFile of transfer 1 is handled
\* and its file written: transfer 2 is still open with its fragment.
C31_Witness ==
    /\ s_last.called
    /\ s_last.request = EndOfFile(1)
    /\ s_last.resp = Ok
    /\ 2 \in DOMAIN s_last.pool_before
    /\ 2 \in DOMAIN file_pool
    /\ file_pool[2] = << << 0, << 2 >> >> >>
    /\ file_metadata[2].file_name = Name_b
    /\ 1 \notin DOMAIN file_pool

(***************************************************************************)
(* C32: where the receiver writes.                                         *)
(***************************************************************************)
\* The storage directory: RECEVIED_FILE_FOLDER, by default "received_files".
RECEVIED_FILE_FOLDER == SubSeq(ReleasePrefix, 1, Len(ReleasePrefix) - 1)

\* "../x"
Name_up == << 46, 46, 47, 120 >>

StoragePool ==
    { FileMetadata(1, Name_a, Digest(<< >>)),
      FileMetadata(1, Name_a, Digest(<< 1 >>)),
      FileMetadata(1, Name_up, Digest(<< >>)),
      FileFragment(1, 0, << 1 >>),
      EndOfFile(1) }

\* The receiver as the release profile builds it.
StorageInit ==
    /\ driver = "peer"
    /\ build = "release"
    /\ SlaveStart
    /\ MasterStart
    /\ c_codec = "request"
    /\ CodecStart

\* The peer writes one frame when the request socket is empty: a socket
\* buffer takes at least one frame, whatever the frame's size.
PeerSendAlone(request) ==
    /\ driver = "peer"
    /\ conn = "open"
    /\ Len(p_sent) < MaxRequests
    /\ req_wire = << >>
    /\ req_wire' = Frame("request", request)
    /\ p_sent' = Append(p_sent, request)
    /\ UNCHANGED << driver, build, conn, resp_wire, resp_stream, slaveVars, codecVars, discVars, recvVars, masterVars >>

StorageNext ==
    \/ \E request \in StoragePool : PeerSendAlone(request)
    \/ PeerClose
    \/ PeerDrain
    \/ SlaveHandle
    \/ SlaveRead
    \/ SlaveStop
    \/ SlaveFlush

StorageSpec == StorageInit /\ [][StorageNext]_vars

\* The components of a path: what its '/' separate.
RECURSIVE Components(_)
Components(path) ==
    IF path = << >> THEN << << >> >>
    ELSE LET rest == Components(Tail(path)) IN
         IF Head(path) = 47 THEN << << >> >> \o rest
         ELSE << << Head(path) >> \o Head(rest) >> \o Tail(rest)

\* Where a relative path leads from the working directory: the directories
\* gone down into, and how many levels it climbs above the working
\* directory.
RECURSIVE Normalize(_, _)
Normalize(comps, acc) ==
    IF comps = << >> THEN acc
    ELSE LET c == Head(comps) IN
         Normalize(Tail(comps),
            IF c \in { << >>, << 46 >> } THEN acc
            ELSE IF c = << 46, 46 >>
            THEN IF acc.down = << >> THEN [acc EXCEPT !.up = @ + 1]
                 ELSE [acc EXCEPT !.down = SubSeq(@, 1, Len(@) - 1)]
            ELSE [acc EXCEPT !.down = Append(@, c)])

Location(path) == Normalize(Components(path), [ down |-> << >>, up |-> 0 ])

\* The file at path lies in the directory dir or below it.
InsideDir(path, dir) ==
    LET p == Location(path)
        q == Location(dir)
    IN /\ p.up = q.up
       /\ Len(p.down) > Len(q.down)
       /\ SubSeq(p.down, 1, Len(q.down)) = q.down

\* C32: storage location. Every file the receiver creates is the file named
\* by the recorded file_name in the storage directory and lies inside that
\* directory, whatever the file_name; and after EndOfFile is answered Ok the
\* file holds the content of this transfer, whatever an earlier transfer
\* under the same file_name left there.
C32_StorageLocation ==
    (s_last.called /\ s_last.io.create_called) =>
        /\ s_last.io.path = RECEVIED_FILE_FOLDER \o << 47 >> \o s_last.io.lookup.file_name
        /\ InsideDir(s_last.io.path, RECEVIED_FILE_FOLDER)
        /\ s_last.resp = Ok => disk[s_last.io.path] = s_last.io.written

(***************************************************************************)
(* C33: the legacy frame codec, src/src/frame.rs.                          *)
(***************************************************************************)
\* MAX_CONTENT_LENGTH
MAX_CONTENT_LENGTH == 1498

\* enum RequestKind { Ping, Data, MetaData }, enum ResponseKind { Pong, Data, Ok },
\* in declaration order.
LegacyKinds(codec) ==
    IF codec = "legacy_request" THEN << "Ping", "Data", "MetaData" >>
    ELSE << "Pong", "Data", "Ok" >>

\* struct Request / struct Response { kind, content_length, content }
LegacyMessage(kind, content_length, content) ==
    [ kind |-> kind, content_length |-> content_length, content |-> content ]

\* bincode::serialize(&item): the variant index as u32, the u16, the Vec<u8>.
LegacySerialize(codec, item) ==
    LET tag == CHOOSE i \in 1..3 : LegacyKinds(codec)[i] = item.kind IN
    LE32(tag - 1)
        \o << item.content_length % 256, item.content_length \div 256 >>
        \o SerBytes(item.content)

\* bincode::deserialize(bytes): bytes after the value are left unread.
LegacyDeserialize(codec, bytes) ==
    IF Len(bytes) < 14 THEN [ ok |-> FALSE ]
    ELSE LET tag == FromLE32(SubSeq(bytes, 1, 4))
             n == FromLE64(SubSeq(bytes, 7, 14))
         IN IF tag \notin 0..2 \/ n < 0 \/ Len(bytes) < 14 + n THEN [ ok |-> FALSE ]
            ELSE [ ok |-> TRUE,
                   msg |-> LegacyMessage(LegacyKinds(codec)[tag + 1],
                                         bytes[5] + 256 * bytes[6],
                                         SubSeq(bytes, 15, 14 + n)) ]

\* encode(item, dst): data_len = 2 + data.len(); put_u16(data_len as u16)
LegacyEncode(codec, item, dst) ==
    LET data == LegacySerialize(codec, item) IN
    IF Len(data) > MAX_CONTENT_LENGTH
    THEN [ res |-> "DataTooLarge", dst |-> dst ]
    ELSE [ res |-> "Ok", dst |-> dst \o u16_to_u8_array((2 + Len(data)) % 65536) \o data ]

\* decode(src): the prefix is read as content_length and content_length + 2
\* bytes are waited for and split off.
LegacyDecode(codec, src) ==
    IF Len(src) < 2 THEN [ res |-> "None", src |-> src ]
    ELSE LET content_length == u8_array_to_u16(<< src[1], src[2] >>) IN
         IF Len(src) < content_length + 2 THEN [ res |-> "None", src |-> src ]
         ELSE LET serialized == Take(src, content_length + 2)
                  d == LegacyDeserialize(codec, Drop(serialized, 2))
              IN IF d.ok THEN [ res |-> "Some", item |-> d.msg, src |-> Drop(src, content_length + 2) ]
                 ELSE [ res |-> "Err", src |-> Drop(src, content_length + 2) ]

LegacyFrame(codec, m) == LegacyEncode(codec, m, << >>).dst

LegacyPool(codec) ==
    { LegacyMessage(LegacyKinds(codec)[1], 0, << >>),
      LegacyMessage(LegacyKinds(codec)[2], 3, << 7, 8, 9 >>),
      LegacyMessage(LegacyKinds(codec)[3], 40, Pattern(3, 40)) }

LegacyInit ==
    /\ c_codec \in { "legacy_request", "legacy_response" }
    /\ CodecStart
    /\ driver = "codec"
    /\ build = "debug"
    /\ SlaveStart
    /\ MasterStart

\* FramedWrite::feed: encode(item, dst)
LegacyCodecEncode(m) ==
    /\ Len(c_sent) < MaxFrames
    /\ LET r == LegacyEncode(c_codec, m, c_dst) IN
        /\ c_enc' = [called |-> TRUE, item |-> m, before |-> c_dst, res |-> r.res, after |-> r.dst]
        /\ c_dst' = r.dst
        /\ c_sent' = IF r.res = "Ok" THEN Append(c_sent, m) ELSE c_sent
    /\ UNCHANGED << c_codec, c_wire, c_src, c_rd, c_got, c_dec, c_reads, c_bytewise >>
    /\ UNCHANGED sysVars

\* FramedRead: decode(src) on the buffer; None asks for a transport read.
LegacyCodecDecode ==
    /\ c_rd = "decode"
    /\ LET r == LegacyDecode(c_codec, c_src) IN
        /\ c_dec' = [called |-> TRUE, before |-> c_src, res |-> r.res,
                     item |-> IF r.res = "Some" THEN r.item
                              ELSE LegacyMessage(LegacyKinds(c_codec)[1], 0, << >>),
                     after |-> r.src]
        /\ c_src' = r.src
        /\ c_got' = IF r.res = "Some" THEN Append(c_got, r.item) ELSE c_got
        /\ c_rd' = CASE r.res = "Some" -> "decode"
                     [] r.res = "None" -> "read"
                     [] OTHER -> "failed"
    /\ UNCHANGED << c_codec, c_dst, c_wire, c_sent, c_enc, c_reads, c_bytewise >>
    /\ UNCHANGED sysVars

LegacyNext ==
    \/ \E m \in LegacyPool(c_codec) : LegacyCodecEncode(m)
    \/ CodecFlush
    \/ LegacyCodecDecode
    \/ \E n \in { 1, Len(c_wire) - 1, Len(c_wire) } : CodecRead(n)

LegacySpec == LegacyInit /\ [][LegacyNext]_vars

\* C33: legacy frame round trip. When decode is called on a buffer holding
\* exactly the bytes encode produced for a message (serialized in at most
\* 1498 bytes), it returns that message and leaves the buffer empty.
C33_LegacyRoundTrip ==
    (c_dec.called /\ c_dec.before # << >>
        /\ \E m \in LegacyPool(c_codec) : c_dec.before = LegacyFrame(c_codec, m))
        => /\ c_dec.res = "Some"
           /\ c_dec.before = LegacyFrame(c_codec, c_dec.item)
           /\ c_dec.after = << >>

(***************************************************************************)
(* C34, C35: decode on buffers of any content.                             *)
(***************************************************************************)
\* Every byte sequence of up to three bytes over a few values.
RECURSIVE ShortBuffers(_)
ShortBuffers(n) ==
    IF n = 0 THEN { << >> }
    ELSE LET shorter == ShortBuffers(n - 1) IN
         shorter \cup { Append(b, x) : b \in shorter, x \in { 0, 1, 2, 255 } }

\* A frame of 1501 bytes around a serialized message of 1499 bytes.
OversizeFrame(codec) ==
    LET data == IF codec = "request"
                THEN Serialize(codec, FileFragment(1, 0, Pattern(5, MAX_CONTENT_SIZE - 16)))
                ELSE Serialize(codec, Pong) \o Pattern(1, MAX_CONTENT_SIZE - 3)
    IN u16_to_u8_array(2 + Len(data)) \o data

\* The buffers decode is called on: short ones of any content, whole
\* frames with and without bytes after them, and a frame above the ceiling.
BufferPool(codec) ==
    ShortBuffers(3)
        \cup { Frame(codec, m) \o tail :
                  m \in { Ping, Pong, EndOfFile(1), Ok } \cap CodecPool(codec),
                  tail \in { << >>, << 0 >>, << 0, 1 >>, << 0, 6, 9 >> } }
        \cup { OversizeFrame(codec) }

\* A FramedRead whose buffer holds what the transport delivered.
RawDecodeInit ==
    /\ c_codec \in { "request", "response" }
    /\ c_src \in BufferPool(c_codec)
    /\ c_dst = << >>
    /\ c_wire = << >>
    /\ c_sent = << >>
    /\ c_enc = NoCall
    /\ c_rd = "decode"
    /\ c_got = << >>
    /\ c_dec = NoCall
    /\ c_reads = 0
    /\ c_bytewise = TRUE
    /\ driver = "codec"
    /\ build = "debug"
    /\ SlaveStart
    /\ MasterStart

RawDecodeNext == CodecDecode

RawDecodeSpec == RawDecodeInit /\ [][RawDecodeNext]_vars

\* The total_length the buffer of the last decode call declared.
DeclaredLength == u8_array_to_u16(<< c_dec.before[1], c_dec.before[2] >>)

\* C34: decode is total. Every call of decode returns None, Some(message)
\* or a decode error, whatever the buffer holds, and a call that does not
\* return None has taken at least 2 bytes off the buffer.
C34_DecodeTotal ==
    c_dec.called =>
        /\ c_dec.res \in { "None", "Some", "Err" }
        /\ c_dec.res # "None" => Len(c_dec.after) <= Len(c_dec.before) - 2

\* C35: the frame-size ceiling on receipt. A call of decode on a buffer
\* whose first two bytes declare more than 1500 bytes returns no message and
\* does not ask for more bytes.
C35_CeilingOnReceipt ==
    (c_dec.called /\ Len(c_dec.before) >= 2 /\ DeclaredLength > 2 + MAX_CONTENT_SIZE) =>
        c_dec.res \notin { "Some", "None" }

(***************************************************************************)
(* C36: transfers that fail after FileMetadata.                            *)
(***************************************************************************)
\* The connection is reset during the call: what was in flight is lost and
\* the next write on it fails.
LinkReset ==
    /\ driver \in { "send_a_file", "do_send_a_file" }
    /\ m_pc \in { "loop", "eof", "drop" }
    /\ conn = "open"
    /\ conn' = "reset"
    /\ req_wire' = << >>
    /\ resp_wire' = << >>
    /\ UNCHANGED << driver, build, resp_stream, p_sent >>
    /\ UNCHANGED << slaveVars, masterVars, codecVars, discVars, recvVars >>

\* send_request: the flush of a request that is partly written fails.
MasterFlushFail ==
    /\ m_pc \in { "loop", "eof", "drop" }
    /\ m_wbuf # << >>
    /\ conn = "reset"
    /\ Return(WriteFailed)
    /\ UNCHANGED << m_path, m_file_id, m_wbuf, read_bytes, fragment_index, status, stat_chan,
                    ctl_sent, polled_log, ctl_lost, abort_at, m_file >>
    /\ UNCHANGED << connVars, slaveVars, codecVars, discVars, recvVars >>

\* file.read(&mut buf)? fails in a turn that polled Running.
MasterReadFail ==
    /\ m_pc = "loop"
    /\ m_wbuf = << >>
    /\ read_bytes < FileLength(m_path)
    /\ ~Disconnected(stat_chan, stat_tx)
    /\ Proceeds(TryRecv(stat_chan, status))
    /\ status' = TryRecv(stat_chan, status)
    /\ stat_chan' = IF stat_chan # << >> THEN Tail(stat_chan) ELSE stat_chan
    /\ polled_log' = IF stat_chan # << >> THEN Append(polled_log, TryRecv(stat_chan, status))
                                          ELSE polled_log
    /\ Return("Io")
    /\ UNCHANGED << m_path, m_file_id, m_wbuf, read_bytes, fragment_index,
                    ctl_sent, ctl_lost, abort_at, m_file >>
    /\ UNCHANGED << connVars, slaveVars, codecVars, discVars, recvVars >>

FailNext ==
    \/ \E path \in PathPool : MasterCall(path, TRUE)
    \/ MasterFlush
    \/ MasterFlushFail
    \/ MasterIterate
    \/ MasterReadFail
    \/ MasterReturn
    \/ \E st \in TaskStatus : CtlSend(st)
    \/ LinkReset
    \/ SlaveRead
    \/ SlaveHandle
    \/ SlaveStop

FailSpec == Init /\ [][FailNext]_vars

Terminal(request) == request.kind \in { "EndOfFile", "DropFile" }

\* The requests send_request has written whole: all that were fed, but for
\* the last while bytes of it are still in the write buffer.
SentWhole == IF m_wbuf = << >> THEN p_sent ELSE SubSeq(p_sent, 1, Len(p_sent) - 1)

\* C36: exactly one terminal request. A call that sent FileMetadata and
\* returned Ok has sent one EndOfFile or DropFile, as its last request and
\* whole, and no other; a call that sent FileMetadata and returned an error
\* has sent no EndOfFile and no DropFile whole, the receiver has handled
\* none, and the file_id is still open on the receiver once it has handled
\* the FileMetadata.
C36_OneTerminal ==
    /\ \A i \in 1..Len(p_sent) : Terminal(p_sent[i]) => i = Len(p_sent)
    /\ (m_pc = "returned" /\ p_sent # << >> /\ m_ret = "Ok") =>
          /\ Terminal(p_sent[Len(p_sent)])
          /\ SentWhole = p_sent
    /\ (m_pc = "returned" /\ p_sent # << >> /\ m_ret # "Ok") =>
          /\ \A i \in 1..Len(SentWhole) : ~Terminal(SentWhole[i])
          /\ \A j \in 1..Len(s_reqs) : ~Terminal(s_reqs[j])
          /\ s_reqs # << >> =>
                /\ m_file_id \in DOMAIN file_pool
                /\ m_file_id \in DOMAIN file_metadata

\* The connection was reset while the second fragment was partly written:
\* the call returned the error with no terminal request sent, and the
\* receiver, which has handled the FileMetadata and the first fragment,
\* keeps the file_id open.
C36_Witness ==
    /\ m_pc = "returned"
    /\ m_ret = "Io"
    /\ LastSent("FileFragment")
    /\ FragmentCount(p_sent) = 2
    /\ m_wbuf # << >>
    /\ Len(s_reqs) = 2
    /\ m_file_id \in DOMAIN file_pool
    /\ Len(file_pool[m_file_id]) = 1

(***************************************************************************)
(* C37: an abort placed before EndOfFile is sent.                          *)
(***************************************************************************)
\* The transfer has not sent its terminal request, and an Aborted waits on
\* the control channel or the channel is disconnected.
AbortPending ==
    /\ m_pc = "loop"
    /\ \/ \E i \in 1..Len(stat_chan) : stat_chan[i] = "Aborted"
       \/ Disconnected(stat_chan, stat_tx)

\* C37: an abort is never lost. While an Aborted placed on the control
\* channel has not been polled, or the channel is disconnected, the sender
\* does not send EndOfFile, whatever the length of the file; and a transfer
\* that ended with DropFile has made the receiver write no file.
C37_AbortNeverLost ==
    /\ [][ AbortPending => p_sent' # Append(p_sent, EndOfFile(m_file_id)) ]_vars
    /\ [](LastSent("DropFile") => disk = EmptyMap)

(***************************************************************************)
(* C38: what EndOfFile reassembles.                                        *)
(***************************************************************************)
ReassemblyPool ==
    { FileMetadata(1, Name_a, Digest(<< 1, 2 >>)),
      FileFragment(1, 3, << 1 >>),
      FileFragment(1, 3, << 2 >>),
      FileFragment(1, 0, << 2, 2 >>),
      EndOfFile(1) }

ReassemblyNext ==
    \/ \E request \in ReassemblyPool : PeerSend(request)
    \/ PeerClose
    \/ PeerDrain
    \/ SlaveHandle
    \/ SlaveRead
    \/ SlaveStop
    \/ SlaveFlush

ReassemblySpec == SlaveInit /\ [][ReassemblyNext]_vars

\* The fragments answered Ok since the last FileMetadata for the file_id of
\* the EndOfFile handled last, in arrival order.
AcceptedLast ==
    LET n == Len(s_reqs)
        file_id == s_last.request.file_id
        k == CHOOSE j \in 1..(n - 1) :
                /\ IsMetadataFor(j, file_id)
                /\ \A i \in (j + 1)..(n - 1) : ~IsMetadataFor(i, file_id)
    IN AcceptedBetween(k, n, file_id)

RECURSIVE TotalLength(_)
TotalLength(frags) ==
    IF frags = << >> THEN 0 ELSE Len(frags[1][2]) + TotalLength(Tail(frags))

\* The arrangement of the fragments by index, those of equal index in
\* arrival order.
ByIndexThenArrival(frags) ==
    Arrange(frags, CHOOSE p \in Perms(Len(frags)) :
        \A i, j \in 1..Len(frags) :
            i < j => \/ frags[p[i]][1] < frags[p[j]][1]
                     \/ frags[p[i]][1] = frags[p[j]][1] /\ p[i] < p[j])

\* C38: no accepted fragment is lost or merged. When EndOfFile finds its
\* file_id, the bytes it reassembles are the payloads of all the fragments
\* answered Ok since the last FileMetadata for the file_id, each once, by
\* index and in arrival order among equal indices, so their length is the
\* sum of the payload lengths; and the response is ChecksumNotMatched
\* exactly when the digest of these bytes differs from the declared one,
\* whatever indices are missing or repeated.
C38_NoFragmentLost ==
    EndOfFileOnOpen =>
        LET content == s_last.io.lookup.file_content IN
        /\ s_last.io.lookup.found
        /\ ArrivedLast = AcceptedLast
        /\ Len(content) = TotalLength(AcceptedLast)
        /\ content = ConcatData(ByIndexThenArrival(AcceptedLast))
        /\ (s_last.resp = ChecksumNotMatched(s_last.request.file_id))
              <=> (Digest(content) # DeclaredLast)

\* Two fragments with the same index 3, and none with index 0, 1 or 2: both
\* are kept in arrival order, the digest matches and the file is written.
C38_Witness ==
    /\ EndOfFileOnOpen
    /\ AcceptedLast = << << 3, << 1 >> >>, << 3, << 2 >> >> >>
    /\ s_last.io.lookup.file_content = << 1, 2 >>
    /\ s_last.resp = Ok

(***************************************************************************)
(* C39: a transfer whose responses outgrow the response socket.            *)
(***************************************************************************)
\* How many chunks the long file has: a response takes 6 bytes or more, so
\* the response socket is full while two chunks or more are still unsent.
LongFileChunks == RecvCap \div 6 + 2

\* A regular file of that many chunks.
LongFile ==
    [ file_name |-> << 108 >>, kind |-> "file",
      content |-> Pattern(11, LongFileChunks * MAX_FILE_FARGMENT_SIZE) ]

\* send_a_file on the long file with the status left at Running, against
\* recv_request_thread. Nothing reads self.receiver during the call, so the
\* responses stay in the response socket.
LongInit ==
    /\ Init
    /\ driver = "send_a_file"

\* The files of the run: the long file and the regular files of the pool.
LongPool == { LongFile } \cup { path \in PathPool : path.kind = "file" }

LongNext ==
    \/ \E path \in LongPool : MasterCall(path, TRUE)
    \/ MasterFlush
    \/ MasterIterate
    \/ MasterReturn
    \/ SlaveRead
    \/ SlaveHandle

LongSpec == LongInit /\ [][LongNext]_vars

\* The sender waits for room in the request socket, which only the receiver
\* makes, while the receiver waits for room in the response socket.
MutualWait ==
    /\ m_pc \in { "loop", "eof", "drop" }
    /\ m_wbuf # << >>
    /\ Len(req_wire) = ReqCapacity
    /\ s_pc = "respond"
    /\ Len(resp_wire) = RespCapacity

\* C39: transfer liveness. During a send_a_file call whose status stays
\* Running the sender waiting on its write and the receiver waiting on the
\* write of a response never wait on each other.
C39_TransferLiveness == ~MutualWait


====
